---- MODULE Spec2Model ----
(***************************************************************************)
(* A model of the arbor code-graph index: the persistent GraphStore        *)
(* (arbor-graph/src/store.rs), the directory indexer                       *)
(* (arbor-watcher/src/indexer.rs), the graph builder                       *)
(* (arbor-graph/src/builder.rs), the symbol table                         *)
(* (arbor-graph/src/symbol_table.rs), context slicing                      *)
(* (arbor-graph/src/slice.rs), the MCP server (arbor-mcp/src/lib.rs) and   *)
(* the bridge startup (arbor-cli/src/commands.rs).                         *)
(*                                                                         *)
(* Several specifications share the module:                                *)
(*   Spec       the GraphStore API called in any order, with sled errors   *)
(*              and crashes;                                               *)
(*   SpecIndex  repeated runs of index_directory over a changing tree;     *)
(*   SpecSym    SymbolTable::insert and resolve_with_context;              *)
(*   SpecBuild  GraphBuilder::add_nodes, resolve_edges and build;          *)
(*   SpecSlice  ArborGraph::slice_context on graphs grown edge by edge;    *)
(*   SpecConf   confidence and role classification of an impact analysis;  *)
(*   SpecNode   CodeNode::new and the builder calls on the node;           *)
(*   SpecMcp    the request loop of McpServer::run_stdio;                  *)
(*   SpecBridge the startup of bridge and the lock on the shared graph;    *)
(*   SpecConc   two threads calling update_file on one GraphStore.         *)
(***************************************************************************)
EXTENDS Integers, Sequences, FiniteSets, TLC

VARIABLES
    db,       \* the sled tree as the open handle sees it
    disk,     \* the durable image: what a store reopened after a crash shows
    open,     \* "closed" | "open" | "poisoned" (sled returned an I/O error)
    call,     \* the update_file / remove_file call in flight
    ret,      \* the last GraphStore call that returned, and its result
    crashed,  \* the call that was in flight when the process last crashed
    shared,   \* some update_file stored an id that another path listed
    fs,       \* the source tree: path -> file (mtime, source text) or NoFile
    run,      \* the index_directory call in progress (its locals)
    prev,     \* what the previous index_directory call saw and returned
    tab,      \* the SymbolTable: by_fqn and exports_by_file
    res,      \* the last resolve_with_context query and its result
    bld,      \* a GraphBuilder: its graph, name_to_id and the calls made on it
    sg,       \* the ArborGraph that slice_context is called on
    slc,      \* the last slice_context call: its arguments and its ContextSlice
    conf,     \* the last impact analysis classified: its counts, level, reasons and role
    cn,       \* the CodeNode under construction, with the id CodeNode::new gave it
    mcp,      \* MCP server: lines read from stdin and responses written to stdout
    br,       \* bridge startup: position, lock on the shared graph, shared slot
    cdb,      \* a sled tree shared by two callers of update_file
    thr,      \* each caller's update_file in flight
    calls     \* update_file calls started, and whether two of them overlapped

storeVars == <<db, disk, open, call, ret, crashed, shared>>
idxVars == <<fs, run, prev>>
symVars == <<tab, res>>
bldVars == <<bld>>
slcVars == <<sg, slc>>
confVars == <<conf>>
nodeVars == <<cn>>
mcpVars == <<mcp>>
bridgeVars == <<br>>
concVars == <<cdb, thr, calls>>
vars ==
    <<db, disk, open, call, ret, crashed, shared, fs, run, prev, tab, res, bld,
      sg, slc,
      conf,
      cn,
      mcp,
      br,
      cdb, thr, calls>>

(***************************************************************************)
(* Bounds and the small universes inputs are drawn from.                  *)
(***************************************************************************)
MaxMtime == 2

Mtimes == 1..MaxMtime

\* A path is <<parent directory, file name>>.
PathA == <<"a", "m.c">>
PathB == <<"b", "m.c">>
Paths == {PathA, PathB}

Range(s) == {s[i] : i \in DOMAIN s}

(***************************************************************************)
(* Vertex records (arbor-core/src/node.rs)                                 *)
(***************************************************************************)

\* The id hashes (file, qualified_name, kind) and nothing else.  The 64-bit
\* hash is modelled as the triple itself, that is, as collision free.
compute_id(file, qualified_name, kind) == <<file, qualified_name, kind>>

CodeNode_new(name, qualified_name, kind, file) ==
    [id |-> compute_id(file, qualified_name, kind),
     name |-> name,
     qualified_name |-> qualified_name,
     kind |-> kind,
     file |-> file,
     line_start |-> 0,
     references |-> <<>>]

with_lines(node, start) == [node EXCEPT !.line_start = start]

with_references(node, refs) == [node EXCEPT !.references = refs]

(***************************************************************************)
(* Source files and parsing (arbor-core/src/parser.rs, languages/c.rs)     *)
(*                                                                         *)
(* A source text is abstracted to: whether it is the empty string, and the *)
(* function declarations it holds in order, each with the callee names of  *)
(* its body (a prototype has none).                                        *)
(***************************************************************************)
Decl(name, refs) == [name |-> name, refs |-> refs]

SrcEmpty == [empty |-> TRUE, decls |-> <<>>]
SrcG == [empty |-> FALSE, decls |-> <<Decl("g", <<>>)>>]
SrcDefProto ==
    [empty |-> FALSE, decls |-> <<Decl("f", <<"g">>), Decl("f", <<>>)>>]
SrcTwo ==
    [empty |-> FALSE, decls |-> <<Decl("g", <<>>), Decl("f", <<"g", "f">>)>>]

Sources == {SrcEmpty, SrcG, SrcDefProto, SrcTwo}

\* extract_function / extract_function_declaration: one node per declaration,
\* name and qualified name both the function's name, kind Function.
extract_function(path, decls, i) ==
    with_references(
        with_lines(CodeNode_new(decls[i].name, decls[i].name, "function", path), i),
        decls[i].refs)

extract_nodes(path, src) ==
    [i \in 1..Len(src.decls) |-> extract_function(path, src.decls, i)]

\* parse_file: an empty file is an error (EmptyFile) unless it is __init__.py.
parse_file(path, src) ==
    IF src.empty
    THEN IF path[2] = "__init__.py"
         THEN [ok |-> TRUE, nodes |-> <<>>]
         ELSE [ok |-> FALSE, nodes |-> <<>>]
    ELSE [ok |-> TRUE, nodes |-> extract_nodes(path, src)]

\* The vertex lists callers hand to update_file.
VertexLists ==
    {parse_file(p, s).nodes : p \in Paths, s \in Sources \ {SrcEmpty}} \cup {<<>>}

Ids(nodes) == {nodes[i].id : i \in DOMAIN nodes}

IdList(nodes) == [i \in DOMAIN nodes |-> nodes[i].id]

(***************************************************************************)
(* The sled tree (arbor-graph/src/store.rs)                                *)
(*                                                                         *)
(* Keys "meta:version", "n:<id>", "f:<path>", "m:<path>" are modelled as   *)
(* the field ver and three maps whose domain is the set of present keys.   *)
(***************************************************************************)
CACHE_VERSION == "arbor-1.3"
OldVersion == "arbor-1.2"
NoVersion == ""

EmptyDb == [ver |-> NoVersion, n |-> <<>>, f |-> <<>>, m |-> <<>>]

Put(map, k, v) == [x \in DOMAIN map \cup {k} |-> IF x = k THEN v ELSE map[x]]

Del(map, k) == [x \in DOMAIN map \ {k} |-> map[x]]

Ins(tbl, key, val) == [op |-> "ins", tbl |-> tbl, key |-> key, val |-> <<val>>]

Rm(tbl, key) == [op |-> "rm", tbl |-> tbl, key |-> key, val |-> <<>>]

ApplyOp(d, o) ==
    IF o.op = "ins"
    THEN CASE o.tbl = "n" -> [d EXCEPT !.n = Put(d.n, o.key, o.val[1])]
           [] o.tbl = "f" -> [d EXCEPT !.f = Put(d.f, o.key, o.val[1])]
           [] OTHER -> [d EXCEPT !.m = Put(d.m, o.key, o.val[1])]
    ELSE CASE o.tbl = "n" -> [d EXCEPT !.n = Del(d.n, o.key)]
           [] o.tbl = "f" -> [d EXCEPT !.f = Del(d.f, o.key)]
           [] OTHER -> [d EXCEPT !.m = Del(d.m, o.key)]

RECURSIVE ApplyOps(_, _)
ApplyOps(d, ops) ==
    IF ops = <<>> THEN d ELSE ApplyOps(ApplyOp(d, Head(ops)), Tail(ops))

\* db.apply_batch(batch): sled commits a batch as one unit.
CommitUnitsPerOp(batch) == [i \in DOMAIN batch |-> <<batch[i]>>]

CommitUnits(batch) == <<batch>>

\* get_mtime / get_file_nodes return an Option: <<>> is None, <<x>> is Some(x).
get_mtime(d, path) == IF path \in DOMAIN d.m THEN <<d.m[path]>> ELSE <<>>

RECURSIVE PresentNodes(_, _)
PresentNodes(d, ids) ==
    IF ids = <<>> THEN <<>>
    ELSE (IF Head(ids) \in DOMAIN d.n THEN <<d.n[Head(ids)]>> ELSE <<>>)
         \o PresentNodes(d, Tail(ids))

get_file_nodes(d, path) ==
    IF path \in DOMAIN d.f THEN <<PresentNodes(d, d.f[path])>> ELSE <<>>

list_cached_files(d) == DOMAIN d.f

\* The vertex records load_graph scans (every n:* key).
StoredNodes(d) == {d.n[id] : id \in DOMAIN d.n}

OldIds(d, path) == IF path \in DOMAIN d.f THEN d.f[path] ELSE <<>>

RemoveOldNone(d, path) == <<>>

RemoveOld(d, path) == [i \in DOMAIN OldIds(d, path) |-> Rm("n", OldIds(d, path)[i])]

InsertNewButLast(nodes) ==
    [i \in 1..(Len(nodes) - 1) |-> Ins("n", nodes[i].id, nodes[i])]

InsertNew(nodes) == [i \in DOMAIN nodes |-> Ins("n", nodes[i].id, nodes[i])]

UpdateBatch(d, path, nodes, mtime) ==
    RemoveOld(d, path) \o InsertNew(nodes)
        \o <<Ins("f", path, IdList(nodes)), Ins("m", path, mtime)>>

RemoveBatchKeepMtime(d, path) == RemoveOld(d, path) \o <<Rm("f", path)>>

RemoveBatch(d, path) ==
    RemoveOld(d, path) \o <<Rm("f", path), Rm("m", path)>>

\* db.clear() followed by the version stamp (clear, open_or_reset).
ResetKeepRecords(d) == [d EXCEPT !.ver = CACHE_VERSION]

ResetDb(d) == [EmptyDb EXCEPT !.ver = CACHE_VERSION]

\* GraphStore::open: the version check, and the stamp of a new cache.
OpenOutcome(d) ==
    IF d.ver # NoVersion
    THEN IF d.ver # CACHE_VERSION
         THEN [res |-> "mismatch", expected |-> CACHE_VERSION, found |-> d.ver, db |-> d]
         ELSE [res |-> "ok", expected |-> CACHE_VERSION, found |-> d.ver, db |-> d]
    ELSE [res |-> "ok", expected |-> CACHE_VERSION, found |-> d.ver,
          db |-> [d EXCEPT !.ver = CACHE_VERSION]]

\* GraphStore::open_or_reset: open, and on VersionMismatch clear and stamp.
OpenOrResetOutcome(d) ==
    IF OpenOutcome(d).res = "mismatch"
    THEN [res |-> "ok", expected |-> CACHE_VERSION, found |-> d.ver, db |-> ResetDb(d)]
    ELSE OpenOutcome(d)

(***************************************************************************)
(* Spec: the GraphStore API                                                *)
(***************************************************************************)
NoCall ==
    [op |-> "none", pc |-> "idle", path |-> PathA, nodes |-> <<>>, mtime |-> 0,
     old |-> <<>>, units |-> <<>>, pre |-> EmptyDb]

NoRet ==
    [op |-> "none", res |-> "none", path |-> PathA, nodes |-> <<>>, mtime |-> 0,
     old |-> <<>>, expected |-> NoVersion, found |-> NoVersion]

\* A cache left behind by a build with another schema version.
SrcLegacy == [empty |-> FALSE, decls |-> <<Decl("legacy", <<>>)>>]

LegacyDb ==
    ApplyOps([EmptyDb EXCEPT !.ver = OldVersion],
             UpdateBatch(EmptyDb, PathA, parse_file(PathA, SrcLegacy).nodes, 1))

NoFile == [present |-> FALSE, mtime |-> 0, src |-> SrcEmpty]

EmptyGraph == [nodes |-> <<>>, edges |-> <<>>]

\* The locals of index_directory before the walk.  walk, parsed, parsedIds,
\* failed and storeFailed record what the call did, for the properties.
NoRun ==
    [pc |-> "idle", cached |-> FALSE, failing |-> FALSE,
     todo |-> <<>>, walk |-> {}, seen |-> {},
     nodes |-> <<>>, name_to_id |-> <<>>,
     files_indexed |-> 0, cache_hits |-> 0, nodes_extracted |-> 0,
     errors |-> <<>>, parsed |-> {}, parsedIds |-> {}, failed |-> {},
     handed |-> 0, storeFailed |-> {}, unseen |-> {}, result |-> "none",
     graph |-> EmptyGraph]

NoPrev ==
    [valid |-> FALSE, cached |-> FALSE, storeFailed |-> FALSE,
     files_indexed |-> 0, cache_hits |-> 0, graph |-> EmptyGraph]

IdxInitOther ==
    /\ fs = [p \in Paths |-> NoFile]
    /\ run = NoRun
    /\ prev = NoPrev

EmptyTable == [by_fqn |-> <<>>, exports_by_file |-> <<>>]

NoRes == [op |-> "none", name |-> <<>>, context_file |-> <<"", "">>, out |-> <<>>]

SymInitOther ==
    /\ tab = EmptyTable
    /\ res = NoRes

\* GraphBuilder::new, with the bookkeeping of the calls made on it: resolve
\* passes since the last add_nodes, and the edge set after the first of them.
NoBuild ==
    [nodes |-> <<>>, name_to_id |-> <<>>, edges |-> <<>>,
     adds |-> 0, passes |-> 0, first |-> {}, built |-> FALSE]

BldInitOther == bld = NoBuild

\* No slice_context call made yet, on a graph with no vertex.
NoSlice ==
    [op |-> "none", target |-> 0, max_tokens |-> 0, max_depth |-> 0, pinned |-> {},
     found |-> FALSE, nodes |-> <<>>, total_tokens |-> 0,
     truncation_reason |-> "Complete"]

SlcInitOther ==
    /\ sg = [nodes |-> <<>>, edges |-> <<>>]
    /\ slc = NoSlice

\* No impact analysis classified yet.
NoConf ==
    [op |-> "none", upstream |-> 0, direct |-> 0, downstream |-> 0,
     total_affected |-> 0, level |-> "Low", reasons |-> <<>>, role |-> "Isolated"]

ConfInitOther == conf = NoConf

\* No CodeNode constructed yet.
NoNode == [op |-> "none"]

NodeInitOther == cn = NoNode

NoMcp == [lines |-> <<>>, exit |-> "running"]

McpInitOther == mcp = NoMcp

\* The shared slot holds ArborGraph::new(); the initial index has not run.
NewBridge ==
    [pc |-> "index", lock |-> "free", readers |-> 0, built |-> 0, failed |-> FALSE,
     slot |-> 0, iter |-> 0, scored |-> FALSE]

BridgeInitOther == br = NewBridge

Threads == {1, 2}

\* No update_file in flight on this thread.
NoThread == [pc |-> "idle", path |-> PathA, batch |-> <<>>]

\* A store that was opened (and stamped) and whose handle is shared by the
\* threads; no call was made yet.
ConcInitOther ==
    /\ cdb = ResetDb(EmptyDb)
    /\ thr = [t \in Threads |-> NoThread]
    /\ calls = [started |-> 0, overlapped |-> FALSE]

StoreInitOther ==
    /\ db = EmptyDb
    /\ disk = EmptyDb
    /\ open = "closed"
    /\ call = NoCall
    /\ ret = NoRet
    /\ crashed = NoCall
    /\ shared = FALSE

MaxInserts == 3

Init ==
    /\ db \in {EmptyDb, LegacyDb}
    /\ disk = db
    /\ open = "closed"
    /\ call = NoCall
    /\ ret = NoRet
    /\ crashed = NoCall
    /\ shared = FALSE
    /\ IdxInitOther
    /\ SymInitOther
    /\ BldInitOther
    /\ SlcInitOther
    /\ ConfInitOther
    /\ NodeInitOther
    /\ McpInitOther
    /\ BridgeInitOther
    /\ ConcInitOther

Open ==
    /\ open = "closed"
    /\ db' = OpenOutcome(db).db
    /\ open' = IF OpenOutcome(db).res = "ok" THEN "open" ELSE "closed"
    /\ ret' = [NoRet EXCEPT !.op = "open", !.res = OpenOutcome(db).res,
                             !.expected = OpenOutcome(db).expected,
                             !.found = OpenOutcome(db).found]
    /\ crashed' = NoCall
    /\ UNCHANGED <<disk, call, shared>>

OpenOrReset ==
    /\ open = "closed"
    /\ db' = OpenOrResetOutcome(db).db
    \* the reset path flushes; a plain open does not
    /\ disk' = IF OpenOutcome(db).res = "mismatch" THEN db' ELSE disk
    /\ open' = "open"
    /\ ret' = [NoRet EXCEPT !.op = "open_or_reset", !.res = OpenOrResetOutcome(db).res,
                             !.expected = OpenOrResetOutcome(db).expected,
                             !.found = OpenOrResetOutcome(db).found]
    /\ crashed' = NoCall
    /\ UNCHANGED <<call, shared>>

\* Dropping the handle: sled flushes what it can.
Close ==
    /\ open # "closed"
    /\ call.op = "none"
    /\ open' = "closed"
    /\ IF open = "poisoned"
       THEN db' = disk /\ UNCHANGED disk
       ELSE disk' = db /\ UNCHANGED db
    /\ ret' = NoRet
    /\ UNCHANGED <<call, crashed, shared>>

\* update_file up to the commit: read the old id-list, fill the batch.
UpdateBegin(path, nodes, mtime) ==
    /\ open = "open"
    /\ call.op = "none"
    /\ call' = [op |-> "update", pc |-> "apply", path |-> path, nodes |-> nodes,
                mtime |-> mtime, old |-> OldIds(db, path),
                units |-> CommitUnits(UpdateBatch(db, path, nodes, mtime)),
                pre |-> db]
    /\ shared' = (shared \/ \E q \in DOMAIN db.f \ {path} :
                                Ids(nodes) \cap Range(db.f[q]) # {})
    /\ ret' = NoRet
    /\ UNCHANGED <<db, disk, open, crashed>>

\* remove_file up to the commit.
RemoveBegin(path) ==
    /\ open = "open"
    /\ call.op = "none"
    /\ call' = [op |-> "remove", pc |-> "apply", path |-> path, nodes |-> <<>>,
                mtime |-> 0, old |-> OldIds(db, path),
                units |-> CommitUnits(RemoveBatch(db, path)),
                pre |-> db]
    /\ ret' = NoRet
    /\ UNCHANGED <<db, disk, open, crashed, shared>>

\* self.db.apply_batch(batch)
ApplyBatch ==
    /\ call.pc = "apply"
    /\ db' = ApplyOps(db, Head(call.units))
    /\ call' = [call EXCEPT !.units = Tail(call.units),
                            !.pc = IF Tail(call.units) = <<>> THEN "flush" ELSE "apply"]
    /\ UNCHANGED <<disk, open, ret, crashed, shared>>

\* self.db.flush() and Ok(())
Flush ==
    /\ call.pc = "flush"
    /\ disk' = db
    /\ ret' = [NoRet EXCEPT !.op = call.op, !.res = "ok", !.path = call.path,
                             !.nodes = call.nodes, !.mtime = call.mtime,
                             !.old = call.old]
    /\ call' = NoCall
    /\ UNCHANGED <<db, open, crashed, shared>>

\* apply_batch or flush returns a sled error, which `?` hands to the caller.
\* sled keeps failing after an I/O error, so the handle is of no more use.
SledError ==
    /\ call.op # "none"
    /\ ret' = [NoRet EXCEPT !.op = call.op, !.res = "err", !.path = call.path,
                             !.nodes = call.nodes, !.mtime = call.mtime,
                             !.old = call.old]
    /\ call' = NoCall
    /\ open' = "poisoned"
    /\ UNCHANGED <<db, disk, crashed, shared>>

\* GraphStore::clear
Clear ==
    /\ open = "open"
    /\ call.op = "none"
    /\ db' = ResetDb(db)
    /\ disk' = db'
    /\ ret' = [NoRet EXCEPT !.op = "clear", !.res = "ok"]
    /\ UNCHANGED <<open, call, crashed, shared>>

\* sled writes its log in the background (flush_every_ms).
BackgroundFlush ==
    /\ open = "open"
    /\ disk # db
    /\ disk' = db
    /\ UNCHANGED <<db, open, call, ret, crashed, shared>>

\* The process dies; the store is later reopened from the durable image.
Crash ==
    /\ open # "closed"
    /\ db' = disk
    /\ open' = "closed"
    /\ crashed' = call
    /\ call' = NoCall
    /\ ret' = NoRet
    /\ UNCHANGED <<disk, shared>>

Next ==
    \/ Open /\ UNCHANGED <<idxVars, symVars, bldVars, slcVars, confVars, nodeVars, mcpVars, bridgeVars, concVars>>
    \/ OpenOrReset /\ UNCHANGED <<idxVars, symVars, bldVars, slcVars, confVars, nodeVars, mcpVars, bridgeVars, concVars>>
    \/ Close /\ UNCHANGED <<idxVars, symVars, bldVars, slcVars, confVars, nodeVars, mcpVars, bridgeVars, concVars>>
    \/ \E path \in Paths, nodes \in VertexLists, mtime \in Mtimes :
           UpdateBegin(path, nodes, mtime) /\ UNCHANGED <<idxVars, symVars, bldVars, slcVars, confVars, nodeVars, mcpVars, bridgeVars, concVars>>
    \/ \E path \in Paths : RemoveBegin(path) /\ UNCHANGED <<idxVars, symVars, bldVars, slcVars, confVars, nodeVars, mcpVars, bridgeVars, concVars>>
    \/ ApplyBatch /\ UNCHANGED <<idxVars, symVars, bldVars, slcVars, confVars, nodeVars, mcpVars, bridgeVars, concVars>>
    \/ Flush /\ UNCHANGED <<idxVars, symVars, bldVars, slcVars, confVars, nodeVars, mcpVars, bridgeVars, concVars>>
    \/ SledError /\ UNCHANGED <<idxVars, symVars, bldVars, slcVars, confVars, nodeVars, mcpVars, bridgeVars, concVars>>
    \/ Clear /\ UNCHANGED <<idxVars, symVars, bldVars, slcVars, confVars, nodeVars, mcpVars, bridgeVars, concVars>>
    \/ BackgroundFlush /\ UNCHANGED <<idxVars, symVars, bldVars, slcVars, confVars, nodeVars, mcpVars, bridgeVars, concVars>>
    \/ Crash /\ UNCHANGED <<idxVars, symVars, bldVars, slcVars, confVars, nodeVars, mcpVars, bridgeVars, concVars>>

Spec == Init /\ [][Next]_vars

(***************************************************************************)
(* Properties of the GraphStore (checked under Spec)                       *)
(***************************************************************************)
LoadedIds(d) == {v.id : v \in StoredNodes(d)}

\* C1: after update_file(F, V, t) returns Ok, get_file_nodes(F) holds exactly
\* the ids of V, get_mtime(F) is t, load_graph holds every vertex of V and
\* none of the vertices F listed before the call that V leaves out.
UpdateRoundTrip ==
    (ret.op = "update" /\ ret.res = "ok") =>
        /\ get_file_nodes(db, ret.path) # <<>>
        /\ Ids(get_file_nodes(db, ret.path)[1]) = Ids(ret.nodes)
        /\ \A v \in Range(get_file_nodes(db, ret.path)[1]) : v \in Range(ret.nodes)
        /\ get_mtime(db, ret.path) = <<ret.mtime>>
        /\ Ids(ret.nodes) \subseteq LoadedIds(db)
        /\ \A id \in Range(ret.old) \ Ids(ret.nodes) : id \notin LoadedIds(db)

UpdateDropsVertex ==
    /\ ret.op = "update"
    /\ ret.res = "ok"
    /\ ret.nodes # <<>>
    /\ Range(ret.old) \ Ids(ret.nodes) # {}
    /\ Range(ret.old) \cap Ids(ret.nodes) # {}

\* C2: after remove_file(F) returns Ok, get_mtime(F) and get_file_nodes(F)
\* are None, F is not a cached file and load_graph holds no vertex F listed.
RemoveFileRemovesAll ==
    (ret.op = "remove" /\ ret.res = "ok") =>
        /\ get_mtime(db, ret.path) = <<>>
        /\ get_file_nodes(db, ret.path) = <<>>
        /\ ret.path \notin list_cached_files(db)
        /\ \A id \in Range(ret.old) : id \notin LoadedIds(db)

RemovedCachedFile ==
    /\ ret.op = "remove"
    /\ ret.res = "ok"
    /\ ret.old # <<>>
    /\ list_cached_files(db) # {}
    /\ LoadedIds(db) # {}

\* What the store holds for the file of call c: its id-list, its mtime and
\* the records of the ids the call touches.
Touched(c) == Range(c.old) \cup Ids(c.nodes)

FileView(d, c) ==
    [f |-> IF c.path \in DOMAIN d.f THEN <<d.f[c.path]>> ELSE <<>>,
     m |-> get_mtime(d, c.path),
     n |-> [id \in Touched(c) \cap DOMAIN d.n |-> d.n[id]]]

LastWithId(nodes, id) ==
    nodes[CHOOSE i \in DOMAIN nodes :
            /\ nodes[i].id = id
            /\ \A j \in DOMAIN nodes : nodes[j].id = id => j <= i]

\* The state the call is to leave, written from its contract.
NewView(c) ==
    IF c.op = "update"
    THEN [f |-> <<IdList(c.nodes)>>,
          m |-> <<c.mtime>>,
          n |-> [id \in Ids(c.nodes) |-> LastWithId(c.nodes, id)]]
    ELSE [f |-> <<>>, m |-> <<>>, n |-> <<>>]

\* C3: a store reopened after a crash during update_file or remove_file shows
\* for the file either all of the prior state or all of the new state.
CrashAtomic ==
    crashed.op # "none" =>
        FileView(db, crashed) \in {FileView(crashed.pre, crashed), NewView(crashed)}

CrashAfterCommit ==
    /\ crashed.op = "update"
    /\ crashed.pc = "flush"
    /\ crashed.old # <<>>
    /\ FileView(db, crashed) = NewView(crashed)
    /\ FileView(crashed.pre, crashed) # NewView(crashed)

\* C4 as stated: every id of every id-list has a vertex record, whatever the
\* calls were.
ListedIdsHaveRecords ==
    \A p \in DOMAIN db.f :
        /\ Range(db.f[p]) \subseteq DOMAIN db.n
        /\ Len(get_file_nodes(db, p)[1]) = Len(db.f[p])

\* C4 (amended): every id of every id-list has a vertex record, provided no
\* update_file stored an id that another path's id-list held at that time.
ListedIdsHaveRecordsUnshared == (~shared) => ListedIdsHaveRecords

UnsharedAfterRemove ==
    /\ ~shared
    /\ ret.op = "remove"
    /\ ret.res = "ok"
    /\ ret.old # <<>>
    /\ \E p \in DOMAIN db.f : Len(db.f[p]) > 1

\* C5: open on a cache of another version returns VersionMismatch with the
\* expected and found versions; open_or_reset on it succeeds, leaves no
\* record, stamps the current version, and a later open succeeds on the
\* empty cache; an open handle never serves a record of the old cache.
VersionGate ==
    /\ (ret.op = "open" /\ ret.found = OldVersion) =>
            /\ ret.res = "mismatch"
            /\ ret.expected = CACHE_VERSION
            /\ open = "closed"
    /\ (ret.op = "open_or_reset" /\ ret.found = OldVersion) =>
            /\ ret.res = "ok"
            /\ open = "open"
            /\ db = [EmptyDb EXCEPT !.ver = CACHE_VERSION]
            /\ disk = db
            /\ OpenOutcome(disk).res = "ok"
            /\ OpenOutcome(disk).db = db
    /\ open # "closed" =>
            /\ db.ver = CACHE_VERSION
            /\ \A v \in StoredNodes(db) : v.name # "legacy"
            /\ \A p \in DOMAIN db.f : \A v \in Range(get_file_nodes(db, p)[1]) :
                   v.name # "legacy"

ResetOldCache ==
    /\ ret.op = "open_or_reset"
    /\ ret.found = OldVersion
    /\ ret.res = "ok"

(***************************************************************************)
(* The graph and its builder (arbor-graph/src/builder.rs)                  *)
(***************************************************************************)

\* ArborGraph::add_node: a vertex whose id the graph already holds is
\* rejected, the existing vertex stays.
graph_add_node(gnodes, node) ==
    IF \E i \in DOMAIN gnodes : gnodes[i].id = node.id
    THEN gnodes
    ELSE Append(gnodes, node)

\* ArborGraph::get_index: whether the graph holds a vertex with this id.
get_index(gnodes, id) == \E i \in DOMAIN gnodes : gnodes[i].id = id

RECURSIVE add_nodes(_, _)
add_nodes(b, nodes) ==
    IF nodes = <<>> THEN b
    ELSE add_nodes(
            [nodes |-> graph_add_node(b.nodes, Head(nodes)),
             name_to_id |->
                 Put(Put(b.name_to_id, Head(nodes).name, Head(nodes).id),
                     Head(nodes).qualified_name, Head(nodes).id)],
            Tail(nodes))

\* The references of a vertex resolved without the from = to test.
RECURSIVE NodeEdgesWithSelf(_, _, _)
NodeEdgesWithSelf(b, from_id, refs) ==
    IF refs = <<>> THEN <<>>
    ELSE (IF /\ Head(refs) \in DOMAIN b.name_to_id
             /\ get_index(b.nodes, from_id)
             /\ get_index(b.nodes, b.name_to_id[Head(refs)])
          THEN <<<<from_id, b.name_to_id[Head(refs)]>>>>
          ELSE <<>>)
         \o NodeEdgesWithSelf(b, from_id, Tail(refs))

\* The references of a vertex resolved with an edge for every name, known
\* or not.
RECURSIVE NodeEdgesUnchecked(_, _, _)
NodeEdgesUnchecked(b, from_id, refs) ==
    IF refs = <<>> THEN <<>>
    ELSE (IF Head(refs) \in DOMAIN b.name_to_id
          THEN (IF from_id # b.name_to_id[Head(refs)]
                THEN <<<<from_id, b.name_to_id[Head(refs)]>>>> ELSE <<>>)
          ELSE <<<<from_id, compute_id(from_id[1], Head(refs), "function")>>>>)
         \o NodeEdgesUnchecked(b, from_id, Tail(refs))

\* The edges one vertex's references resolve to, in reference order.
RECURSIVE NodeEdges(_, _, _)
NodeEdges(b, from_id, refs) ==
    IF refs = <<>> THEN <<>>
    ELSE (IF /\ Head(refs) \in DOMAIN b.name_to_id
             /\ from_id # b.name_to_id[Head(refs)]
             /\ get_index(b.nodes, from_id)
             /\ get_index(b.nodes, b.name_to_id[Head(refs)])
          THEN <<<<from_id, b.name_to_id[Head(refs)]>>>>
          ELSE <<>>)
         \o NodeEdges(b, from_id, Tail(refs))

RECURSIVE EdgesFrom(_, _)
EdgesFrom(b, gnodes) ==
    IF gnodes = <<>> THEN <<>>
    ELSE NodeEdges(b, Head(gnodes).id, Head(gnodes).references)
         \o EdgesFrom(b, Tail(gnodes))

resolve_edges(b) == EdgesFrom(b, b.nodes)

build(b) == [nodes |-> b.nodes, edges |-> resolve_edges(b)]

NewBuilder == [nodes |-> <<>>, name_to_id |-> <<>>]

VertexIds(g) == {g.nodes[i].id : i \in DOMAIN g.nodes}

EdgeSet(g) == Range(g.edges)

\* scan_prefix("n:") yields the records in key order, an order of the hashes:
\* some fixed order of the ids.
RECURSIVE ScanOrder(_)
ScanOrder(S) ==
    IF S = {} THEN <<>>
    ELSE LET x == CHOOSE y \in S : TRUE IN <<x>> \o ScanOrder(S \ {x})

load_graph(d) ==
    IF DOMAIN d.n = {}
    THEN EmptyGraph
    ELSE build(add_nodes(NewBuilder, [i \in DOMAIN ScanOrder(DOMAIN d.n) |->
                                          d.n[ScanOrder(DOMAIN d.n)[i]]]))

(***************************************************************************)
(* SpecIndex: index_directory (arbor-watcher/src/indexer.rs)               *)
(***************************************************************************)
is_supported(path) == path[2] \in {"m.c", "__init__.py"}

\* The walker's order over the files of the tree.
WalkOrder == <<PathA, PathB>>

WalkList == SelectSeq(WalkOrder, LAMBDA p : fs[p].present /\ is_supported(p))

Builder(r) == [nodes |-> r.nodes, name_to_id |-> r.name_to_id]

WithBuilder(r, b) == [r EXCEPT !.nodes = b.nodes, !.name_to_id = b.name_to_id]

\* A cache hit that hands the vertices over without counting the file.
AfterCacheHitUncounted(r, p, cached_nodes) ==
    [WithBuilder(r, add_nodes(Builder(r), cached_nodes)) EXCEPT
        !.todo = Tail(r.todo),
        !.seen = r.seen \cup {p},
        !.nodes_extracted = r.nodes_extracted + Len(cached_nodes),
        !.handed = r.handed + Len(cached_nodes)]

\* lines 136-141: the cached vertex list goes to the builder.
AfterCacheHit(r, p, cached_nodes) ==
    [WithBuilder(r, add_nodes(Builder(r), cached_nodes)) EXCEPT
        !.todo = Tail(r.todo),
        !.seen = r.seen \cup {p},
        !.nodes_extracted = r.nodes_extracted + Len(cached_nodes),
        !.cache_hits = r.cache_hits + 1,
        !.handed = r.handed + Len(cached_nodes)]

\* lines 149-157 and 167-171: a parsed file is counted and goes to the builder.
AfterParsed(r, p, nodes) ==
    [WithBuilder(r, add_nodes(Builder(r), nodes)) EXCEPT
        !.todo = Tail(r.todo),
        !.seen = r.seen \cup {p},
        !.nodes_extracted = r.nodes_extracted + Len(nodes),
        !.files_indexed = r.files_indexed + 1,
        !.parsed = r.parsed \cup {p},
        !.parsedIds = r.parsedIds \cup Ids(nodes),
        !.handed = r.handed + Len(nodes)]

AbortOnParseError(r, p) ==
    [r EXCEPT !.todo = <<>>,
              !.seen = r.seen \cup {p},
              !.errors = Append(r.errors, [path |-> p, msg |-> "EmptyFile"]),
              !.failed = r.failed \cup {p}]

\* lines 158-161 and 172-175: the failure is recorded and the walk goes on.
AfterParseError(r, p) ==
    [r EXCEPT !.todo = Tail(r.todo),
              !.seen = r.seen \cup {p},
              !.errors = Append(r.errors, [path |-> p, msg |-> "EmptyFile"]),
              !.failed = r.failed \cup {p}]

\* lines 153-155 and 186-188: a failed store write is logged (warn!) and
\* leaves no trace in what index_directory returns.
AfterStoreError(r, p) ==
    [r EXCEPT !.failing = TRUE, !.storeFailed = r.storeFailed \cup {p}]

IsCacheHit(r, d, p) ==
    /\ r.cached
    /\ ~r.failing
    /\ get_mtime(d, p) = <<fs[p].mtime>>
    /\ get_file_nodes(d, p) # <<>>

\* One call of index_directory starts: the cache is opened if configured.
BeginRun(useCache) ==
    /\ run.pc \in {"idle", "done"}
    /\ prev' = IF run.pc = "done"
               THEN [valid |-> TRUE, cached |-> run.cached,
                     storeFailed |-> (run.storeFailed # {}),
                     files_indexed |-> run.files_indexed,
                     cache_hits |-> run.cache_hits, graph |-> run.graph]
               ELSE NoPrev
    /\ db' = IF useCache THEN OpenOrResetOutcome(db).db ELSE db
    /\ run' = [NoRun EXCEPT !.pc = "walk", !.cached = useCache,
                            !.todo = WalkList, !.walk = Range(WalkList)]
    /\ UNCHANGED fs

\* The loop body for a file the cache holds with the current mtime.
CacheHit ==
    /\ run.pc = "walk"
    /\ run.todo # <<>>
    /\ IsCacheHit(run, db, Head(run.todo))
    /\ run' = AfterCacheHit(run, Head(run.todo), get_file_nodes(db, Head(run.todo))[1])
    /\ UNCHANGED <<db, fs, prev>>

\* The loop body for a cache miss: parse, update_file, hand to the builder.
\* update_file either commits or returns a sled error.
ParseAndCache(io) ==
    /\ run.pc = "walk"
    /\ run.todo # <<>>
    /\ run.cached
    /\ ~IsCacheHit(run, db, Head(run.todo))
    /\ parse_file(Head(run.todo), fs[Head(run.todo)].src).ok
    /\ LET p == Head(run.todo)
           nodes == parse_file(p, fs[p].src).nodes
       IN IF io = "ok" /\ ~run.failing
          THEN /\ db' = ApplyOps(db, UpdateBatch(db, p, nodes, fs[p].mtime))
               /\ run' = AfterParsed(run, p, nodes)
          ELSE /\ db' = db
               /\ run' = AfterStoreError(AfterParsed(run, p, nodes), p)
    /\ UNCHANGED <<fs, prev>>

\* The loop body without a cache: parse and hand to the builder.
ParseNoCache ==
    /\ run.pc = "walk"
    /\ run.todo # <<>>
    /\ ~run.cached
    /\ parse_file(Head(run.todo), fs[Head(run.todo)].src).ok
    /\ run' = AfterParsed(run, Head(run.todo),
                          parse_file(Head(run.todo), fs[Head(run.todo)].src).nodes)
    /\ UNCHANGED <<db, fs, prev>>

\* The loop body for a file that does not parse (with or without a cache).
ParseFailed ==
    /\ run.pc = "walk"
    /\ run.todo # <<>>
    /\ ~IsCacheHit(run, db, Head(run.todo))
    /\ ~parse_file(Head(run.todo), fs[Head(run.todo)].src).ok
    /\ run' = AfterParseError(run, Head(run.todo))
    /\ UNCHANGED <<db, fs, prev>>

\* lines 181-192: remove_file for every cached path not seen, in key order;
\* the first k succeed, and if k is not all of them the next one fails.
RECURSIVE RemoveAll(_, _)
RemoveAll(d, paths) ==
    IF paths = <<>> THEN d
    ELSE RemoveAll(ApplyOps(d, RemoveBatch(d, Head(paths))), Tail(paths))

Unseen(r, d) == SelectSeq(WalkOrder, LAMBDA p : p \in list_cached_files(d) /\ p \notin r.seen)

\* After the walk: deletion reconciliation, build, return Ok.
Finish(k) ==
    /\ run.pc = "walk"
    /\ run.todo = <<>>
    /\ IF run.cached /\ ~run.failing
       THEN /\ k \in 0..Len(Unseen(run, db))
            /\ db' = RemoveAll(db, SubSeq(Unseen(run, db), 1, k))
            /\ run' = [(IF k < Len(Unseen(run, db))
                        THEN AfterStoreError(run, Unseen(run, db)[k + 1])
                        ELSE run)
                         EXCEPT !.pc = "done", !.result = "Ok",
                                !.unseen = Range(Unseen(run, db)),
                                !.graph = build(Builder(run))]
       ELSE /\ k = 0
            /\ db' = db
            /\ run' = [run EXCEPT !.pc = "done", !.result = "Ok",
                                  !.graph = build(Builder(run))]
    /\ UNCHANGED <<fs, prev>>

\* Between two calls the tree changes: a file is written or deleted.  What the
\* last call returned is then no longer about the tree as it is.
WriteFile(p, src, mtime) ==
    /\ run.pc \in {"idle", "done"}
    /\ fs[p] # [present |-> TRUE, mtime |-> mtime, src |-> src]
    /\ fs' = [fs EXCEPT ![p] = [present |-> TRUE, mtime |-> mtime, src |-> src]]
    /\ run' = NoRun
    /\ prev' = NoPrev
    /\ UNCHANGED db

DeleteFile(p) ==
    /\ run.pc \in {"idle", "done"}
    /\ fs[p].present
    /\ fs' = [fs EXCEPT ![p] = NoFile]
    /\ run' = NoRun
    /\ prev' = NoPrev
    /\ UNCHANGED db

IdxStoreUnchanged == UNCHANGED <<disk, open, call, ret, crashed, shared>>

InitIndex ==
    /\ db \in {EmptyDb, LegacyDb}
    /\ disk = EmptyDb
    /\ open = "closed"
    /\ call = NoCall
    /\ ret = NoRet
    /\ crashed = NoCall
    /\ shared = FALSE
    /\ IdxInitOther
    /\ SymInitOther
    /\ BldInitOther
    /\ SlcInitOther
    /\ ConfInitOther
    /\ NodeInitOther
    /\ McpInitOther
    /\ BridgeInitOther
    /\ ConcInitOther

NextIndex ==
    \/ \E useCache \in BOOLEAN : BeginRun(useCache) /\ IdxStoreUnchanged /\ UNCHANGED <<symVars, bldVars, slcVars, confVars, nodeVars, mcpVars, bridgeVars, concVars>>
    \/ CacheHit /\ IdxStoreUnchanged /\ UNCHANGED <<symVars, bldVars, slcVars, confVars, nodeVars, mcpVars, bridgeVars, concVars>>
    \/ \E io \in {"ok", "err"} : ParseAndCache(io) /\ IdxStoreUnchanged /\ UNCHANGED <<symVars, bldVars, slcVars, confVars, nodeVars, mcpVars, bridgeVars, concVars>>
    \/ ParseNoCache /\ IdxStoreUnchanged /\ UNCHANGED <<symVars, bldVars, slcVars, confVars, nodeVars, mcpVars, bridgeVars, concVars>>
    \/ ParseFailed /\ IdxStoreUnchanged /\ UNCHANGED <<symVars, bldVars, slcVars, confVars, nodeVars, mcpVars, bridgeVars, concVars>>
    \/ \E k \in 0..Cardinality(Paths) : Finish(k) /\ IdxStoreUnchanged /\ UNCHANGED <<symVars, bldVars, slcVars, confVars, nodeVars, mcpVars, bridgeVars, concVars>>
    \/ \E p \in Paths, src \in Sources, mtime \in Mtimes :
           WriteFile(p, src, mtime) /\ IdxStoreUnchanged /\ UNCHANGED <<symVars, bldVars, slcVars, confVars, nodeVars, mcpVars, bridgeVars, concVars>>
    \/ \E p \in Paths : DeleteFile(p) /\ IdxStoreUnchanged /\ UNCHANGED <<symVars, bldVars, slcVars, confVars, nodeVars, mcpVars, bridgeVars, concVars>>

SpecIndex == InitIndex /\ [][NextIndex]_vars

(***************************************************************************)
(* Properties of index_directory (checked under SpecIndex)                 *)
(***************************************************************************)
ErrorPaths(r) == {r.errors[i].path : i \in DOMAIN r.errors}

\* C6: a second run with the same cache over the unchanged tree, after a
\* first run that started cold, parses nothing, hits the cache once for each
\* file the first run parsed, and returns a graph with the same vertex ids
\* and the same set of edges (no store call failing in either run).
CacheDeterminism ==
    (/\ run.pc = "done" /\ run.cached /\ run.storeFailed = {}
     /\ prev.valid /\ prev.cached /\ ~prev.storeFailed /\ prev.cache_hits = 0) =>
        /\ run.files_indexed = 0
        /\ run.cache_hits = prev.files_indexed
        /\ VertexIds(run.graph) = VertexIds(prev.graph)
        /\ EdgeSet(run.graph) = EdgeSet(prev.graph)

\* C7: when index_directory has returned with a cache, no cached path is one
\* the walk did not visit, and load_graph holds no vertex and no edge of a
\* file that was not visited.
DeletionReconciled ==
    (run.pc = "done" /\ run.cached) =>
        /\ list_cached_files(db) \subseteq run.seen
        /\ \A id \in VertexIds(load_graph(db)) : id[1] \in run.seen
        /\ \A e \in EdgeSet(load_graph(db)) : e[1][1] \in run.seen /\ e[2][1] \in run.seen

\* C8: a failure of update_file or remove_file during index_directory shows
\* in what it returns: an Err, or an entry of errors for that path.
StoreErrorsSurfaced ==
    (run.pc = "done" /\ run.cached /\ run.storeFailed # {}) =>
        \/ run.result = "Err"
        \/ \A p \in run.storeFailed : p \in ErrorPaths(run)

\* C9: a file that fails to parse adds one (path, message) entry to errors,
\* the walk goes on over every remaining file, and index_directory returns Ok
\* with a graph that holds the vertices of every file that parsed.
ParseFailureRecorded ==
    run.pc = "done" =>
        /\ run.result = "Ok"
        /\ run.seen = run.walk
        /\ run.walk = {p \in Paths : fs[p].present}
        /\ \A p \in run.failed : ~parse_file(p, fs[p].src).ok
        /\ \A p \in run.failed :
               Cardinality({i \in DOMAIN run.errors : run.errors[i].path = p}) = 1
        /\ ErrorPaths(run) = run.failed
        /\ Len(run.errors) = Cardinality(run.failed)
        /\ \A p \in run.parsed : Ids(parse_file(p, fs[p].src).nodes) \subseteq VertexIds(run.graph)
        /\ run.failed \cup run.parsed \cup {p \in run.walk : run.cached /\ get_mtime(db, p) = <<fs[p].mtime>>}
              = run.walk

ParseFailureThenParsed ==
    /\ run.pc = "done"
    /\ run.failed = {PathA}
    /\ run.parsed = {PathB}
    /\ VertexIds(run.graph) # {}

(***************************************************************************)
(* SpecSym: the symbol table (arbor-graph/src/symbol_table.rs)             *)
(*                                                                         *)
(* A string is a sequence of characters.  Rust's str::len counts UTF-8     *)
(* bytes and chars().nth counts characters, so each character carries its  *)
(* encoded length ("\u00e9", e with an acute accent, takes two bytes).         *)
(***************************************************************************)
EAcute == "e'"

Utf8Len(c) == IF c = EAcute THEN 2 ELSE 1

RECURSIVE str_len(_)
str_len(str) == IF str = <<>> THEN 0 ELSE Utf8Len(Head(str)) + str_len(Tail(str))

ends_with(str, suffix) ==
    /\ Len(suffix) <= Len(str)
    /\ SubSeq(str, Len(str) - Len(suffix) + 1, Len(str)) = suffix

\* str.chars().nth(k): an Option.
chars_nth(str, k) == IF k >= 0 /\ k < Len(str) THEN <<str[k + 1]>> ELSE <<>>

\* Path::parent of a path <<directory, file name>>.
parent(file) == file[1]

Fqns ==
    {<<"h">>, <<"a", ".", "h">>, <<"b", ":", "h">>, <<EAcute, ".", "h">>, <<"a", "h">>}

QueryNames == {<<"h">>, <<"a", ".", "h">>, <<"x">>}

DefFiles == {<<"a", "m.rs">>, <<"b", "m.rs">>}

CallerFiles == {<<"a", "caller.rs">>, <<"b", "caller.rs">>, <<"c", "caller.rs">>}

NodeIds == {1, 2}

\* SymbolTable::insert
insert(t, fqn, id, file) ==
    [by_fqn |-> Put(t.by_fqn, fqn, id),
     exports_by_file |->
         Put(t.exports_by_file, file,
             Append(IF file \in DOMAIN t.exports_by_file
                    THEN t.exports_by_file[file] ELSE <<>>, fqn))]

\* lines 77-83: fqn ends with name, and the character before the suffix, found
\* by chars().nth(byte length of the prefix - 1), is a separator.
IsCandidate(fqn, name) ==
    /\ ends_with(fqn, name)
    /\ LET prefix_len == str_len(fqn) - str_len(name)
       IN \/ prefix_len = 0
          \/ chars_nth(fqn, prefix_len - 1) = <<".">>
          \/ chars_nth(fqn, prefix_len - 1) = <<":">>

Candidates(t, name) == {fqn \in DOMAIN t.by_fqn : IsCandidate(fqn, name)}

Exporting(t, fqn) ==
    {file \in DOMAIN t.exports_by_file : fqn \in Range(t.exports_by_file[file])}

\* lines 85-90: find() takes the first file, in the HashMap's iteration order,
\* whose exports hold fqn: any of them.
SameDirOptions(t, fqn, context_file) ==
    IF Exporting(t, fqn) = {}
    THEN {FALSE}
    ELSE {parent(file) = parent(context_file) : file \in Exporting(t, fqn)}

\* lines 97-111, for one outcome same_dir of the find() calls.
PickCandidate(t, cands, same_dir) ==
    IF cands = {} THEN <<>>
    ELSE IF Cardinality(cands) = 1 THEN <<t.by_fqn[CHOOSE c \in cands : TRUE]>>
    ELSE IF Cardinality({c \in cands : same_dir[c]}) = 1
         THEN <<t.by_fqn[CHOOSE c \in cands : same_dir[c]]>>
         ELSE <<>>

\* SymbolTable::resolve_with_context: the results it can return.
resolve_with_context(t, name, context_file) ==
    IF name \in DOMAIN t.by_fqn
    THEN {<<t.by_fqn[name]>>}
    ELSE {PickCandidate(t, Candidates(t, name), same_dir) :
            same_dir \in {sd \in [Candidates(t, name) -> BOOLEAN] :
                             \A c \in Candidates(t, name) :
                                 sd[c] \in SameDirOptions(t, c, context_file)}}

Inserted(t) ==
    LET RECURSIVE Total(_)
        Total(S) == IF S = {} THEN 0
                    ELSE LET f == CHOOSE x \in S : TRUE
                         IN Len(t.exports_by_file[f]) + Total(S \ {f})
    IN Total(DOMAIN t.exports_by_file)

Insert(fqn, id, file) ==
    /\ Inserted(tab) < MaxInserts
    /\ tab' = insert(tab, fqn, id, file)
    /\ res' = NoRes

Resolve(name, context_file) ==
    /\ \E out \in resolve_with_context(tab, name, context_file) :
          res' = [op |-> "resolve", name |-> name, context_file |-> context_file,
                  out |-> out]
    /\ UNCHANGED tab

InitSym ==
    /\ StoreInitOther
    /\ IdxInitOther
    /\ SymInitOther
    /\ BldInitOther
    /\ SlcInitOther
    /\ ConfInitOther
    /\ NodeInitOther
    /\ McpInitOther
    /\ BridgeInitOther
    /\ ConcInitOther

NextSym ==
    \/ \E fqn \in Fqns, id \in NodeIds, file \in DefFiles :
           Insert(fqn, id, file) /\ UNCHANGED <<storeVars, idxVars, bldVars, slcVars, confVars, nodeVars, mcpVars, bridgeVars, concVars>>
    \/ \E name \in QueryNames, context_file \in CallerFiles :
           Resolve(name, context_file) /\ UNCHANGED <<storeVars, idxVars, bldVars, slcVars, confVars, nodeVars, mcpVars, bridgeVars, concVars>>

SpecSym == InitSym /\ [][NextSym]_vars

(***************************************************************************)
(* Properties of the symbol table (checked under SpecSym)                  *)
(***************************************************************************)

\* The registered names that end in name directly after a '.' or a ':'.
SuffixMatches(t, name) ==
    {fqn \in DOMAIN t.by_fqn :
        /\ Len(fqn) > Len(name)
        /\ ends_with(fqn, name)
        /\ fqn[Len(fqn) - Len(name)] \in {".", ":"}}

LocalMatches(t, name, context_file) ==
    {fqn \in SuffixMatches(t, name) :
        \E file \in Exporting(t, fqn) : parent(file) = parent(context_file)}

\* The result the resolution rule gives.
RuleResult(t, name, context_file) ==
    IF name \in DOMAIN t.by_fqn THEN <<t.by_fqn[name]>>
    ELSE IF Cardinality(SuffixMatches(t, name)) = 1
         THEN <<t.by_fqn[CHOOSE c \in SuffixMatches(t, name) : TRUE]>>
    ELSE IF Cardinality(LocalMatches(t, name, context_file)) = 1
         THEN <<t.by_fqn[CHOOSE c \in LocalMatches(t, name, context_file) : TRUE]>>
    ELSE <<>>

OneDefiningFile(t) == \A fqn \in DOMAIN t.by_fqn : Cardinality(Exporting(t, fqn)) = 1

\* C10: resolve_with_context returns the id of an exact match, else the only
\* registered name ending in name after a '.' or ':', else the only such name
\* defined in the caller's directory, else None (each name being registered
\* from one file).
ResolveFollowsRule ==
    (res.op = "resolve" /\ OneDefiningFile(tab)) =>
        res.out = RuleResult(tab, res.name, res.context_file)

(***************************************************************************)
(* SpecBuild: the graph builder (arbor-graph/src/builder.rs)               *)
(*                                                                         *)
(* add_nodes is called with the vertices of one file at a time;            *)
(* resolve_edges is public and build runs it once more.  The graph is a    *)
(* multigraph: add_edge appends, so edges is a sequence.                   *)
(***************************************************************************)
MaxAdds == 4

MaxPasses == 2

HelperA == CodeNode_new("helper", "helper", "function", <<"a", "x.rs">>)

HelperB == CodeNode_new("helper", "helper", "function", <<"b", "x.rs">>)

CallerA ==
    with_references(CodeNode_new("caller", "caller", "function", <<"a", "y.rs">>),
                    <<"helper">>)

CallerC ==
    with_references(CodeNode_new("caller", "caller", "function", <<"c", "y.rs">>),
                    <<"helper">>)

\* A vertex that refers to its own name, to its own qualified name and to a
\* name nothing defines.
Rec ==
    with_references(CodeNode_new("rec", "m.rec", "function", <<"a", "y.rs">>),
                    <<"rec", "m.rec", "missing">>)

FileNodes == {<<HelperA>>, <<HelperB>>, <<CallerA, Rec>>, <<CallerC>>}

ResolvePassReplacing(b) ==
    [b EXCEPT !.edges = IF b.passes = 0 THEN resolve_edges(Builder(b)) ELSE <<>>,
              !.passes = b.passes + 1,
              !.first = IF b.passes = 0 THEN Range(resolve_edges(Builder(b)))
                        ELSE b.first]

\* One run of resolve_edges: every edge it finds is added to the graph.
ResolvePass(b) ==
    [b EXCEPT !.edges = b.edges \o resolve_edges(Builder(b)),
              !.passes = b.passes + 1,
              !.first = IF b.passes = 0
                        THEN Range(b.edges \o resolve_edges(Builder(b)))
                        ELSE b.first]

AddNodes(nodes) ==
    /\ ~bld.built
    /\ bld.adds < MaxAdds
    /\ bld' = [WithBuilder(bld, add_nodes(Builder(bld), nodes)) EXCEPT
                  !.adds = bld.adds + 1, !.passes = 0, !.first = {}]

ResolveEdges ==
    /\ ~bld.built
    /\ bld.passes < MaxPasses
    /\ bld' = ResolvePass(bld)

Build ==
    /\ ~bld.built
    /\ bld' = [ResolvePass(bld) EXCEPT !.built = TRUE]

BuilderNew ==
    /\ bld.built
    /\ bld' = NoBuild

InitBuild ==
    /\ StoreInitOther
    /\ IdxInitOther
    /\ SymInitOther
    /\ BldInitOther
    /\ SlcInitOther
    /\ ConfInitOther
    /\ NodeInitOther
    /\ McpInitOther
    /\ BridgeInitOther
    /\ ConcInitOther

NextBuild ==
    \/ \E nodes \in FileNodes : AddNodes(nodes) /\ UNCHANGED <<storeVars, idxVars, symVars, slcVars, confVars, nodeVars, mcpVars, bridgeVars, concVars>>
    \/ ResolveEdges /\ UNCHANGED <<storeVars, idxVars, symVars, slcVars, confVars, nodeVars, mcpVars, bridgeVars, concVars>>
    \/ Build /\ UNCHANGED <<storeVars, idxVars, symVars, slcVars, confVars, nodeVars, mcpVars, bridgeVars, concVars>>
    \/ BuilderNew /\ UNCHANGED <<storeVars, idxVars, symVars, slcVars, confVars, nodeVars, mcpVars, bridgeVars, concVars>>

SpecBuild == InitBuild /\ [][NextBuild]_vars

(***************************************************************************)
(* Properties of the builder (checked under SpecBuild)                     *)
(***************************************************************************)

\* C11: with helper defined in a/ and in b/, a caller in a/ that refers to
\* helper gets its edge to a/'s helper and none to b/'s, and a caller in c/
\* gets no edge.
LocalityInBuilder ==
    (/\ bld.built
     /\ HelperA.id \in VertexIds(bld)
     /\ HelperB.id \in VertexIds(bld)) =>
        /\ CallerA.id \in VertexIds(bld) =>
              /\ <<CallerA.id, HelperA.id>> \in EdgeSet(bld)
              /\ <<CallerA.id, HelperB.id>> \notin EdgeSet(bld)
        /\ CallerC.id \in VertexIds(bld) =>
              \A e \in EdgeSet(bld) : e[1] # CallerC.id

\* C12: no edge added by resolve_edges joins a vertex to itself.
NoSelfEdges == \A e \in EdgeSet(bld) : e[1] # e[2]

SelfReferenceResolved ==
    /\ bld.passes >= 1
    /\ Rec.id \in VertexIds(bld)
    /\ bld.name_to_id["rec"] = Rec.id
    /\ EdgeSet(bld) # {}

\* Both endpoints of every edge of g are vertices of g, and the edge comes
\* from a reference of its source that names its target.
EndpointsIn(g) ==
    \A e \in EdgeSet(g) :
        /\ e[1] \in VertexIds(g)
        /\ e[2] \in VertexIds(g)
        /\ \E i, j \in DOMAIN g.nodes :
              /\ g.nodes[i].id = e[1]
              /\ g.nodes[j].id = e[2]
              /\ \E r \in Range(g.nodes[i].references) :
                     r \in {g.nodes[j].name, g.nodes[j].qualified_name}

\* C13: in every graph build returns (the builder's, load_graph's and
\* index_directory's), both endpoints of every edge are vertices of the graph,
\* and a reference that names no vertex gives no edge.
EdgeEndpointsPresent ==
    /\ EndpointsIn(bld)
    /\ EndpointsIn(load_graph(db))
    /\ EndpointsIn(run.graph)

BuiltWithDanglingReference ==
    /\ bld.built
    /\ Rec.id \in VertexIds(bld)
    /\ CallerA.id \in VertexIds(bld)
    /\ <<CallerA.id, HelperA.id>> \in EdgeSet(bld)

MaxEdges == 3

MaxSliceDepth == 2

\* usize::MAX: above every depth and every token total of the model.
USIZE_MAX == 2147483647

\* make_node of the tests: CodeNode::new(name, name, Function, "test.rs").
make_node(name) ==
    [name |-> name, qualified_name |-> name, file |-> "test.rs",
     signature |-> <<>>, line_start |-> 0, line_end |-> 0]

SliceNodes ==
    <<make_node("a"), make_node("b"), make_node("c"),
      [make_node("important_node") EXCEPT !.signature = <<"fn important_node()">>,
                                          !.line_start = 3, !.line_end = 4]>>

\* A NodeId no vertex has.
MissingId == 4

SliceTargets == {0, 1, MissingId}

TokenBudgets == {0, 5, 26, 1000}

PinSets == SUBSET {0, 2, 3}

EdgeChoices == {<<0, 1>>, <<1, 2>>, <<2, 3>>, <<2, 0>>, <<3, 1>>}

\* ArborGraph::get
graph_get(g, id) == IF id + 1 \in DOMAIN g.nodes THEN <<g.nodes[id + 1]>> ELSE <<>>

\* ArborGraph::centrality: 0 when no score was stored.
centrality(g, id) == 0

\* u32::saturating_sub
saturating_sub(a, b) == IF a >= b THEN a - b ELSE 0

estimate_tokens(node) ==
    LET base == Len(node.name) + Len(node.qualified_name) + Len(node.file)
        signature_len == IF node.signature = <<>> THEN 0 ELSE Len(node.signature[1])
        lines == saturating_sub(node.line_end, node.line_start) + 1
        estimated_chars == base + signature_len + (lines * 40)
    IN (estimated_chars + 3) \div 4

Reverse(seq) == [i \in DOMAIN seq |-> seq[Len(seq) + 1 - i]]

\* edges_directed(current, Incoming) then edges_directed(current, Outgoing):
\* petgraph walks a vertex's edge list from the edge added last.
neighborsOutgoing(g, current) ==
    LET outs == SelectSeq(Reverse(g.edges), LAMBDA e : e[1] = current)
    IN [i \in DOMAIN outs |-> outs[i][2]]

neighbors(g, current) ==
    LET ins == SelectSeq(Reverse(g.edges), LAMBDA e : e[2] = current)
        outs == SelectSeq(Reverse(g.edges), LAMBDA e : e[1] = current)
    IN [i \in DOMAIN ins |-> ins[i][1]] \o [i \in DOMAIN outs |-> outs[i][2]]

within_budget_before(is_pinned, total_tokens, token_est, effective_tokens) ==
    is_pinned \/ total_tokens <= effective_tokens

\* line 192
within_budget(is_pinned, total_tokens, token_est, effective_tokens) ==
    is_pinned \/ total_tokens + token_est <= effective_tokens

explores_if_included(included, depth, effective_max) ==
    included /\ depth < effective_max

\* line 210: neighbours are queued whether or not the vertex was included.
explores(included, depth, effective_max) == depth < effective_max

\* A queue that takes new entries at its front (depth-first order).
push_front(queue, entries) == entries \o queue

\* VecDeque::push_back of each entry in turn.
push_back(queue, entries) == queue \o entries

\* lines 171-227: the while loop, from a loop state to the final one.
RECURSIVE slice_loop(_, _, _, _, _)
slice_loop(g, st, effective_max, effective_tokens, pinned_set) ==
    IF st.queue = <<>> THEN st
    ELSE
      LET current == Head(st.queue)[1]
          depth == Head(st.queue)[2]
          rest == Tail(st.queue)
      IN IF current \in st.visited
         THEN slice_loop(g, [st EXCEPT !.queue = rest],
                         effective_max, effective_tokens, pinned_set)
         ELSE IF depth > effective_max
         THEN slice_loop(g, [st EXCEPT !.queue = rest,
                                       !.truncation_reason = "MaxDepth"],
                         effective_max, effective_tokens, pinned_set)
         ELSE
           LET visited == st.visited \cup {current}
               is_pinned == current \in pinned_set
               found == graph_get(g, current) # <<>>
               token_est == IF found THEN estimate_tokens(graph_get(g, current)[1]) ELSE 0
               within == found /\ within_budget(is_pinned, st.total_tokens, token_est,
                                                effective_tokens)
               queued == IF explores(within, depth, effective_max)
                         THEN LET ns == SelectSeq(neighbors(g, current),
                                                  LAMBDA n : n \notin visited)
                              IN [i \in DOMAIN ns |-> <<ns[i], depth + 1>>]
                         ELSE <<>>
           IN slice_loop(g,
                [queue |-> push_back(rest, queued),
                 visited |-> visited,
                 result |-> IF within
                            THEN Append(st.result,
                                   [id |-> current, token_estimate |-> token_est,
                                    depth |-> depth, pinned |-> is_pinned,
                                    centrality |-> centrality(g, current)])
                            ELSE st.result,
                 total_tokens |-> IF within THEN st.total_tokens + token_est
                                  ELSE st.total_tokens,
                 truncation_reason |-> IF found /\ ~within THEN "TokenBudget"
                                       ELSE st.truncation_reason],
                effective_max, effective_tokens, pinned_set)

\* lines 230-240: a sorts before b.
sorts_before(a, b) ==
    \/ a.pinned /\ ~b.pinned
    \/ a.pinned = b.pinned /\ a.depth < b.depth
    \/ a.pinned = b.pinned /\ a.depth = b.depth /\ a.centrality > b.centrality

\* Vec::sort_by is stable: x goes before the first element it sorts before.
RECURSIVE sort_by(_)
sort_by(seq) ==
    IF seq = <<>> THEN <<>>
    ELSE LET sorted == sort_by(SubSeq(seq, 1, Len(seq) - 1))
             x == seq[Len(seq)]
             after == {i \in DOMAIN sorted : sorts_before(x, sorted[i])}
             k == IF after = {} THEN Len(sorted) + 1
                  ELSE CHOOSE i \in after : \A j \in after : i <= j
         IN SubSeq(sorted, 1, k - 1) \o <<x>> \o SubSeq(sorted, k, Len(sorted))

slice_context(g, target, max_tokens, max_depth, pinned) ==
    IF graph_get(g, target) = <<>>
    THEN [found |-> FALSE, nodes |-> <<>>, total_tokens |-> 0,
          truncation_reason |-> "Complete"]
    ELSE LET effective_max == IF max_depth = 0 THEN USIZE_MAX ELSE max_depth
             effective_tokens == IF max_tokens = 0 THEN USIZE_MAX ELSE max_tokens
             final == slice_loop(g,
                        [queue |-> <<<<target, 0>>>>, visited |-> {}, result |-> <<>>,
                         total_tokens |-> 0, truncation_reason |-> "Complete"],
                        effective_max, effective_tokens, pinned)
         IN [found |-> TRUE, nodes |-> sort_by(final.result),
             total_tokens |-> final.total_tokens,
             truncation_reason |-> final.truncation_reason]

\* ArborGraph::add_edge
GraphAddEdge(e) ==
    /\ Len(sg.edges) < MaxEdges
    /\ sg' = [sg EXCEPT !.edges = Append(sg.edges, e)]
    /\ slc' = NoSlice

\* slice_context reads the graph and changes nothing, so a call made after
\* another returns what it returns when made first: slc holds one call.
SliceContext(target, max_tokens, max_depth, pinned) ==
    /\ slc = NoSlice
    /\ slc' = [op |-> "slice", target |-> target, max_tokens |-> max_tokens,
               max_depth |-> max_depth, pinned |-> pinned]
              @@ slice_context(sg, target, max_tokens, max_depth, pinned)
    /\ UNCHANGED sg

InitSlice ==
    /\ StoreInitOther
    /\ IdxInitOther
    /\ SymInitOther
    /\ BldInitOther
    /\ sg = [nodes |-> SliceNodes, edges |-> <<>>]
    /\ slc = NoSlice
    /\ ConfInitOther
    /\ NodeInitOther
    /\ McpInitOther
    /\ BridgeInitOther
    /\ ConcInitOther

NextSlice ==
    \/ \E e \in EdgeChoices :
           GraphAddEdge(e) /\ UNCHANGED <<storeVars, idxVars, symVars, bldVars, confVars, nodeVars, mcpVars, bridgeVars, concVars>>
    \/ \E target \in SliceTargets, max_tokens \in TokenBudgets,
          max_depth \in 0..MaxSliceDepth, pinned \in PinSets :
           SliceContext(target, max_tokens, max_depth, pinned)
           /\ UNCHANGED <<storeVars, idxVars, symVars, bldVars, confVars, nodeVars, mcpVars, bridgeVars, concVars>>

SpecSlice == InitSlice /\ [][NextSlice]_vars

(***************************************************************************)
(* Properties of slice_context (checked under SpecSlice)                   *)
(***************************************************************************)

\* The vertices one hop from v, along an edge in either direction.
Adjacent(g, v) ==
    {e[2] : e \in {x \in Range(g.edges) : x[1] = v}}
        \cup {e[1] : e \in {x \in Range(g.edges) : x[2] = v}}

\* The vertices at undirected hop distance at most k from t.
RECURSIVE Ball(_, _, _)
Ball(g, t, k) ==
    IF k = 0 THEN {t}
    ELSE Ball(g, t, k - 1) \cup UNION {Adjacent(g, v) : v \in Ball(g, t, k - 1)}

\* max_depth as a number of hops: 0 stands for no limit.
Hops(g, max_depth) == IF max_depth = 0 THEN Len(g.nodes) ELSE max_depth

ResultIds(r) == {r.nodes[i].id : i \in DOMAIN r.nodes}

RECURSIVE NonPinnedTokens(_)
NonPinnedTokens(nodes) ==
    IF nodes = <<>> THEN 0
    ELSE (IF Head(nodes).pinned THEN 0 ELSE Head(nodes).token_estimate)
         + NonPinnedTokens(Tail(nodes))

RECURSIVE AllTokens(_)
AllTokens(nodes) ==
    IF nodes = <<>> THEN 0 ELSE estimate_tokens(Head(nodes)) + AllTokens(Tail(nodes))

\* C15: with max_tokens > 0, the token estimates of the non-pinned nodes of
\* a slice add up to at most max_tokens.
SliceBudget ==
    (slc.op = "slice" /\ slc.max_tokens > 0) =>
        NonPinnedTokens(slc.nodes) <= slc.max_tokens

SliceOverBudgetByPins ==
    /\ slc.op = "slice"
    /\ slc.max_tokens > 0
    /\ slc.total_tokens > slc.max_tokens
    /\ NonPinnedTokens(slc.nodes) > 0
    /\ slc.truncation_reason = "TokenBudget"

\* C16: every pinned vertex within max_depth hops of the target, along edges
\* in either direction, is in the slice with pinned = true.
PinnedIncluded ==
    (slc.op = "slice" /\ slc.found) =>
        \A p \in slc.pinned \cap Ball(sg, slc.target, Hops(sg, slc.max_depth)) :
            \E i \in DOMAIN slc.nodes : slc.nodes[i].id = p /\ slc.nodes[i].pinned

PinnedBeyondExcluded ==
    /\ slc.op = "slice"
    /\ slc.truncation_reason = "TokenBudget"
    /\ \E i \in DOMAIN slc.nodes : slc.nodes[i].pinned /\ slc.nodes[i].depth = 2
    /\ \A i \in DOMAIN slc.nodes : slc.nodes[i].depth = 2

\* Some vertex within the depth bound was left out of the slice.
ExcludedForBudget ==
    Ball(sg, slc.target, Hops(sg, slc.max_depth)) \ ResultIds(slc) # {}

\* Some vertex reachable from the target lies beyond the depth bound.
NodesBeyondDepth ==
    Ball(sg, slc.target, Len(sg.nodes)) # Ball(sg, slc.target, Hops(sg, slc.max_depth))

\* C17: the truncation reason is TokenBudget when a node was excluded for
\* budget, MaxDepth when the traversal stopped at the depth bound with nodes
\* beyond it, and Complete only when neither happened.
TruncationRule ==
    (slc.op = "slice" /\ slc.found) =>
        /\ (~ExcludedForBudget /\ ~NodesBeyondDepth) =>
               slc.truncation_reason = "Complete"
        /\ (ExcludedForBudget /\ ~NodesBeyondDepth) =>
               slc.truncation_reason = "TokenBudget"
        /\ (~ExcludedForBudget /\ NodesBeyondDepth) =>
               slc.truncation_reason = "MaxDepth"
        /\ (ExcludedForBudget /\ NodesBeyondDepth) =>
               slc.truncation_reason \in {"TokenBudget", "MaxDepth"}

\* The chain a -> b -> c sliced from a with a budget that fits two vertices.
ChainSliced ==
    /\ slc.op = "slice"
    /\ sg.edges = <<<<0, 1>>, <<1, 2>>>>
    /\ slc.target = 0
    /\ slc.max_tokens = 26
    /\ slc.max_depth \in {0, 2}

\* C18: on the chain, with no pins the slice is two vertices with reason
\* TokenBudget; with c pinned it is three nodes, c pinned, and the reason is
\* TokenBudget again.
ChainTruncation ==
    ChainSliced =>
        /\ slc.pinned = {} =>
              /\ Len(slc.nodes) = 2
              /\ ResultIds(slc) = {0, 1}
              /\ slc.truncation_reason = "TokenBudget"
        /\ slc.pinned = {2} =>
              /\ Len(slc.nodes) = 3
              /\ \E i \in DOMAIN slc.nodes : slc.nodes[i].id = 2 /\ slc.nodes[i].pinned
              /\ slc.truncation_reason = "TokenBudget"

\* C19: with max_depth = d > 0 and a budget that fits every node, the slice
\* is exactly the vertices at undirected hop distance at most d from the
\* target, each tagged with its distance.
DepthBound ==
    (/\ slc.op = "slice" /\ slc.found /\ slc.max_depth > 0
     /\ (slc.max_tokens = 0 \/ slc.max_tokens >= AllTokens(sg.nodes))) =>
        /\ ResultIds(slc) = Ball(sg, slc.target, slc.max_depth)
        /\ \A i \in DOMAIN slc.nodes :
               /\ slc.nodes[i].id \in Ball(sg, slc.target, slc.nodes[i].depth)
               /\ slc.nodes[i].depth > 0 =>
                      slc.nodes[i].id \notin Ball(sg, slc.target, slc.nodes[i].depth - 1)

DepthCutsChain ==
    /\ slc.op = "slice"
    /\ slc.found
    /\ slc.max_depth = 1
    /\ slc.max_tokens = 1000
    /\ Len(slc.nodes) = 3
    /\ NodesBeyondDepth

\* The shortest undirected hop distance from t to v is d.
HopDistance(g, t, v, d) ==
    /\ v \in Ball(g, t, d)
    /\ d > 0 => v \notin Ball(g, t, d - 1)

\* C26: each node appears at most once in the slice, and the depth recorded
\* for it is its shortest undirected hop distance from the target, whatever
\* the budget, the depth limit and the pins.
VisitedOnceAtShortestDepth ==
    (slc.op = "slice" /\ slc.found) =>
        /\ \A i, j \in DOMAIN slc.nodes : slc.nodes[i].id = slc.nodes[j].id => i = j
        /\ \A i \in DOMAIN slc.nodes :
               HopDistance(sg, slc.target, slc.nodes[i].id, slc.nodes[i].depth)

\* The target lies on the cycle 0 -> 1 -> 2 -> 0: vertex 1 is reached by one
\* hop and by two, and is recorded once, at depth 1.
CycleSliced ==
    /\ slc.op = "slice"
    /\ slc.found
    /\ slc.target = 0
    /\ slc.max_depth = 0
    /\ {<<0, 1>>, <<1, 2>>, <<2, 0>>} \subseteq Range(sg.edges)
    /\ Len(slc.nodes) = 3
    /\ \E i \in DOMAIN slc.nodes : slc.nodes[i].id = 1 /\ slc.nodes[i].depth = 1
    /\ \E i \in DOMAIN slc.nodes : slc.nodes[i].id = 2 /\ slc.nodes[i].depth = 1

\* C20: when the target is a vertex of the graph, it is in the slice, at
\* depth 0.
TargetIncluded ==
    (slc.op = "slice" /\ slc.found) =>
        \E i \in DOMAIN slc.nodes :
            slc.nodes[i].id = slc.target /\ slc.nodes[i].depth = 0

(***************************************************************************)
(* SpecConf: confidence and role (arbor-graph/src/confidence.rs)           *)
(*                                                                         *)
(* An ImpactAnalysis is abstracted to the sizes of its upstream and        *)
(* downstream lists, the number of upstream entries at hop distance 1, and *)
(* total_affected = |upstream| + |downstream|.                             *)
(***************************************************************************)
MaxUpstream == 30

MaxDownstream == 30

\* The impact analysis of a target with these many upstream and downstream
\* vertices, direct of the upstream ones at hop distance 1.
ImpactAnalysis(upstream, direct, downstream) ==
    [upstream |-> upstream, direct |-> direct, downstream |-> downstream,
     total_affected |-> upstream + downstream]

\* lines 47-83: the level, with the reasons pushed on the way (as tags).
base_confidence(analysis) ==
    LET upstream_count == analysis.upstream
        downstream_count == analysis.downstream
        total == analysis.total_affected
    IN IF upstream_count = 0 /\ downstream_count = 0
       THEN [level |-> "Low", reasons |-> <<"isolated">>]
       ELSE IF upstream_count = 0
       THEN [level |-> IF downstream_count > 5 THEN "Medium" ELSE "High",
             reasons |-> <<"entry point", "downstream count">>]
       ELSE IF downstream_count = 0
       THEN [level |-> "High", reasons |-> <<"utility", "upstream count">>]
       ELSE IF total > 20
       THEN [level |-> "Medium", reasons |-> <<"counts", "large blast radius">>]
       ELSE IF total > 50
       THEN [level |-> "Low", reasons |-> <<"counts", "very large blast radius">>]
       ELSE [level |-> "High", reasons |-> <<"counts", "manageable impact">>]

\* ConfidenceExplanation::from_analysis
confidence_from_analysis(analysis) ==
    LET base == base_confidence(analysis)
    IN [level |-> base.level,
        reasons |-> IF analysis.total_affected > 0 /\ analysis.direct > 0
                    THEN Append(base.reasons, "break immediately")
                    ELSE base.reasons]

role_never_adapter(analysis) ==
    LET has_upstream == analysis.upstream # 0
        has_downstream == analysis.downstream # 0
    IN IF ~has_upstream /\ ~has_downstream THEN "Isolated"
       ELSE IF ~has_upstream THEN "Entry Point"
       ELSE IF ~has_downstream THEN "Utility"
       ELSE "Core Logic"

\* NodeRole::from_analysis, as the string Display gives it.
role_from_analysis(analysis) ==
    LET has_upstream == analysis.upstream # 0
        has_downstream == analysis.downstream # 0
    IN IF ~has_upstream /\ ~has_downstream THEN "Isolated"
       ELSE IF ~has_upstream THEN "Entry Point"
       ELSE IF ~has_downstream THEN "Utility"
       ELSE IF analysis.upstream <= 2 /\ analysis.downstream > 5 THEN "Adapter"
       ELSE IF analysis.downstream <= 2 /\ analysis.upstream > 5 THEN "Adapter"
       ELSE "Core Logic"

\* One impact analysis is classified: its confidence and its role;
\* from_analysis only reads its argument: conf holds one call.
Classify(upstream, direct, downstream) ==
    /\ conf = NoConf
    /\ (upstream = 0 => direct = 0)
    /\ (upstream > 0 => direct >= 1)
    /\ LET analysis == ImpactAnalysis(upstream, direct, downstream)
       IN conf' = [op |-> "classify"] @@ analysis
                  @@ confidence_from_analysis(analysis)
                  @@ [role |-> role_from_analysis(analysis)]

InitConf ==
    /\ StoreInitOther
    /\ IdxInitOther
    /\ SymInitOther
    /\ BldInitOther
    /\ SlcInitOther
    /\ ConfInitOther
    /\ NodeInitOther
    /\ McpInitOther
    /\ BridgeInitOther
    /\ ConcInitOther

NextConf ==
    \E upstream \in 0..MaxUpstream, downstream \in 0..MaxDownstream :
        \E direct \in {0, 1, upstream} :
            Classify(upstream, direct, downstream)
            /\ UNCHANGED <<storeVars, idxVars, symVars, bldVars, slcVars, nodeVars, mcpVars, bridgeVars, concVars>>

SpecConf == InitConf /\ [][NextConf]_vars

(***************************************************************************)
(* Properties of the classification (checked under SpecConf)               *)
(***************************************************************************)

\* The base confidence of the classification table.
TableConfidence(upstream, downstream, total) ==
    IF upstream = 0 /\ downstream = 0 THEN "Low"
    ELSE IF upstream = 0 THEN (IF downstream > 5 THEN "Medium" ELSE "High")
    ELSE IF downstream = 0 THEN "High"
    ELSE IF total <= 20 THEN "High"
    ELSE IF total <= 50 THEN "Medium"
    ELSE "Low"

\* C21: from_analysis returns the base confidence of the table: Low when
\* isolated; High for an entry point unless downstream > 5, then Medium; High
\* for a utility; otherwise High up to 20 affected, Medium for 21..50, Low
\* above 50.
ConfidenceFollowsTable ==
    conf.op = "classify" =>
        conf.level = TableConfidence(conf.upstream, conf.downstream, conf.total_affected)

\* C22: the role is a function of the two counts: Isolated, Entry Point,
\* Utility, Adapter for (<= 2, > 5) or (> 5, <= 2), Core Logic otherwise;
\* 5 callers and no callees is Utility.
RoleFollowsTable ==
    conf.op = "classify" =>
        /\ conf.role \in {"Isolated", "Entry Point", "Utility", "Adapter", "Core Logic"}
        /\ (conf.upstream = 0 /\ conf.downstream = 0) => conf.role = "Isolated"
        /\ (conf.upstream = 0 /\ conf.downstream > 0) => conf.role = "Entry Point"
        /\ (conf.upstream > 0 /\ conf.downstream = 0) => conf.role = "Utility"
        /\ (conf.upstream > 0 /\ conf.downstream > 0) =>
              conf.role = IF \/ conf.upstream <= 2 /\ conf.downstream > 5
                             \/ conf.downstream <= 2 /\ conf.upstream > 5
                          THEN "Adapter" ELSE "Core Logic"
        /\ (conf.upstream = 5 /\ conf.downstream = 0) =>
              conf.role = "Utility" /\ conf.level = "High"

AdapterClassified ==
    /\ conf.op = "classify"
    /\ conf.role = "Adapter"
    /\ conf.upstream > 5
    /\ conf.downstream = 2

(***************************************************************************)
(* SpecNode: vertex identity (arbor-core/src/node.rs)                      *)
(*                                                                         *)
(* Here the id is the string compute_id formats: the 64-bit value of the   *)
(* hasher, as four 16-bit limbs from the most significant, printed with    *)
(* {:016x}.  The hasher is a fixed function of the bytes fed to it; the    *)
(* particular function below stands for it.                                *)
(***************************************************************************)
HexDigits == <<"0", "1", "2", "3", "4", "5", "6", "7", "8", "9",
               "a", "b", "c", "d", "e", "f">>

\* The 16-bit value a string or a kind contributes to the hasher's state.
HashInput(x) ==
    CASE x = "a/m.rs" -> 4660
      [] x = "b/m.rs" -> 65535
      [] x = "f" -> 0
      [] x = "m.f" -> 43981
      [] x = "function" -> 7
      [] x = "method" -> 256
      [] OTHER -> 1

\* DefaultHasher::new, hash of the three values, finish.
hasher_finish(file, qualified_name, kind) ==
    <<HashInput(file), HashInput(qualified_name), HashInput(kind),
      (HashInput(file) * 31 + HashInput(qualified_name) * 17 + HashInput(kind)) % 65536>>

\* {:04x} of one limb.
hex4(n) ==
    <<HexDigits[((n \div 4096) % 16) + 1], HexDigits[((n \div 256) % 16) + 1],
      HexDigits[((n \div 16) % 16) + 1], HexDigits[(n % 16) + 1]>>

\* format!("{:016x}", hasher.finish())
format_016x(limbs) == hex4(limbs[1]) \o hex4(limbs[2]) \o hex4(limbs[3]) \o hex4(limbs[4])

compute_id_hex(file, qualified_name, kind) ==
    format_016x(hasher_finish(file, qualified_name, kind))

\* CodeNode::new with every field of the struct the builder calls set.
CodeNode_new_full(name, qualified_name, kind, file) ==
    [id |-> compute_id_hex(file, qualified_name, kind),
     name |-> name, qualified_name |-> qualified_name, kind |-> kind, file |-> file,
     line_start |-> 0, line_end |-> 0, byte_start |-> 0, byte_end |-> 0,
     column |-> 0, signature |-> <<>>, visibility |-> "private",
     is_async |-> FALSE, is_static |-> FALSE, is_exported |-> FALSE,
     references |-> <<>>]

NodeNames == {"f", "g"}

NodeQualifiedNames == {"f", "m.f"}

NodeKinds == {"function", "method"}

NodeFiles == {"a/m.rs", "b/m.rs"}

\* with_lines that also recomputes the id from the line.
with_lines_rehash(node, start, end) ==
    [node EXCEPT !.line_start = start, !.line_end = end,
                 !.id = format_016x(<<start, end, 0, 0>>)]

with_lines_full(node, start, end) ==
    [node EXCEPT !.line_start = start, !.line_end = end]

New(name, qualified_name, kind, file) ==
    /\ cn' = [op |-> "new", calls |-> 0,
              first |-> compute_id_hex(file, qualified_name, kind),
              node |-> CodeNode_new_full(name, qualified_name, kind, file)]

WithLines(start, end) ==
    /\ cn.op = "new"
    /\ cn' = [cn EXCEPT !.node = with_lines_full(cn.node, start, end),
                        !.calls = 1]

WithBytes(start, end) ==
    /\ cn.op = "new"
    /\ cn' = [cn EXCEPT !.node.byte_start = start, !.node.byte_end = end, !.calls = 1]

WithColumn(column) ==
    /\ cn.op = "new"
    /\ cn' = [cn EXCEPT !.node.column = column, !.calls = 1]

WithSignature(sig) ==
    /\ cn.op = "new"
    /\ cn' = [cn EXCEPT !.node.signature = <<sig>>, !.calls = 1]

WithVisibility(vis) ==
    /\ cn.op = "new"
    /\ cn' = [cn EXCEPT !.node.visibility = vis, !.calls = 1]

AsAsync ==
    /\ cn.op = "new"
    /\ cn' = [cn EXCEPT !.node.is_async = TRUE, !.calls = 1]

AsStatic ==
    /\ cn.op = "new"
    /\ cn' = [cn EXCEPT !.node.is_static = TRUE, !.calls = 1]

AsExported ==
    /\ cn.op = "new"
    /\ cn' = [cn EXCEPT !.node.is_exported = TRUE, !.calls = 1]

WithReferences(refs) ==
    /\ cn.op = "new"
    /\ cn' = [cn EXCEPT !.node.references = refs, !.calls = 1]

NodeOthersUnchanged == UNCHANGED <<storeVars, idxVars, symVars, bldVars, slcVars, confVars, mcpVars, bridgeVars, concVars>>

InitNode ==
    /\ StoreInitOther
    /\ IdxInitOther
    /\ SymInitOther
    /\ BldInitOther
    /\ SlcInitOther
    /\ ConfInitOther
    /\ NodeInitOther
    /\ McpInitOther
    /\ BridgeInitOther
    /\ ConcInitOther

NextNode ==
    \/ \E name \in NodeNames, qualified_name \in NodeQualifiedNames,
          kind \in NodeKinds, file \in NodeFiles :
           cn = NoNode /\ New(name, qualified_name, kind, file) /\ NodeOthersUnchanged
    \/ \E start \in {1, 7}, end \in {7, 9} : WithLines(start, end) /\ NodeOthersUnchanged
    \/ \E start \in {0, 40} : WithBytes(start, start + 20) /\ NodeOthersUnchanged
    \/ WithColumn(4) /\ NodeOthersUnchanged
    \/ WithSignature("fn f()") /\ NodeOthersUnchanged
    \/ WithVisibility("public") /\ NodeOthersUnchanged
    \/ AsAsync /\ NodeOthersUnchanged
    \/ AsStatic /\ NodeOthersUnchanged
    \/ AsExported /\ NodeOthersUnchanged
    \/ \E refs \in {<<"g">>} : WithReferences(refs) /\ NodeOthersUnchanged

SpecNode == InitNode /\ [][NextNode]_vars

(***************************************************************************)
(* Properties of vertex identity (checked under SpecNode)                  *)
(***************************************************************************)

\* C23: the id is the 16-hex-digit string computed from (file,
\* qualified_name, kind) alone: it is the one CodeNode::new gave, whatever
\* the name and the other fields are, and no builder call changes it.
IdentityStable ==
    cn.op = "new" =>
        /\ cn.node.id = compute_id_hex(cn.node.file, cn.node.qualified_name, cn.node.kind)
        /\ cn.node.id = cn.first
        /\ Len(cn.node.id) = 16
        /\ \A i \in 1..16 : cn.node.id[i] \in Range(HexDigits)

BuiltNodeKeepsId ==
    /\ cn.op = "new"
    /\ cn.calls = 1
    /\ cn.node.name = "g"
    /\ cn.node.line_start = 7
    /\ cn.node.is_async
    /\ cn.node.is_exported
    /\ cn.node.signature # <<>>
    /\ cn.node.references # <<>>

(***************************************************************************)
(* Vertex identity across the parser, the store and the graph              *)
(* (checked under SpecIndex)                                               *)
(***************************************************************************)

\* C24: the declarations extracted from one file have pairwise distinct ids,
\* and each of them is kept: its record is in the store (when the run cached
\* it) and it is a vertex of the graph.
IdsUniquePerEntity ==
    run.pc = "done" =>
        \A p \in run.parsed :
            LET nodes == parse_file(p, fs[p].src).nodes
            IN /\ \A i, j \in DOMAIN nodes : nodes[i].id = nodes[j].id => i = j
               /\ (run.cached /\ run.storeFailed = {}) =>
                      \A i \in DOMAIN nodes :
                          /\ nodes[i].id \in DOMAIN db.n
                          /\ db.n[nodes[i].id] = nodes[i]
               /\ \A i \in DOMAIN nodes : nodes[i] \in Range(run.graph.nodes)

(***************************************************************************)
(* MCP server over stdio (arbor-mcp/src/lib.rs)                            *)
(*                                                                         *)
(* mcp.lines is the sequence of lines read from stdin, each with the       *)
(* responses written to stdout while it was handled (none or one);         *)
(* mcp.exit says whether run_stdio is still in its loop.                   *)
(***************************************************************************)

MaxLines == 2

Null == "<null>"

\* Names the shared graph resolves (by id or by name).
GraphNames == {"a"}

RequestIds == {Null, "1"}

Methods ==
    {"initialize", "notifications/initialized", "tools/list", "tools/call",
     "resources/list", "bogus/method"}

ToolParams(name, start_node, end_node) ==
    [present |-> TRUE, name |-> name, start_node |-> start_node, end_node |-> end_node]

\* A request without the member "params".
NoParams == [present |-> FALSE, name |-> Null, start_node |-> Null, end_node |-> Null]

\* The params of tools/call requests: absent, without a name, each tool with
\* and without its arguments, and a tool that does not exist.
McpParams ==
    {NoParams,
     ToolParams(Null, "a", Null),
     ToolParams("get_logic_path", "a", Null),
     ToolParams("get_logic_path", Null, Null),
     ToolParams("analyze_impact", Null, Null),
     ToolParams("find_path", "a", "a"),
     ToolParams("find_path", "zz", "a"),
     ToolParams("find_path", Null, Null),
     ToolParams("no_such_tool", "a", Null)}

RequestLine(method, params, id) ==
    [kind |-> "request", method |-> method, params |-> params, id |-> id]

\* A line that is empty after trim().
BlankLine == [kind |-> "blank", method |-> Null, params |-> NoParams, id |-> Null]

\* A line that is not JSON.
GarbageLine == [kind |-> "garbage", method |-> Null, params |-> NoParams, id |-> Null]

\* A JSON object without the required member "method".
NoMethodLine == [kind |-> "nomethod", method |-> Null, params |-> NoParams, id |-> "1"]

\* The lines the server is fed; params only matter to tools/call.
StdinLines ==
    {BlankLine, GarbageLine, NoMethodLine}
        \cup {RequestLine(m, NoParams, id) : m \in Methods \ {"tools/call"}, id \in RequestIds}
        \cup {RequestLine("tools/call", ps, id) : ps \in McpParams, id \in RequestIds}

\* serde_json::from_str::<JsonRpcRequest>: jsonrpc and method are required.
from_str(line) ==
    IF line.kind = "request" THEN [ok |-> TRUE, req |-> line] ELSE [ok |-> FALSE, req |-> line]

RpcOk == [ok |-> TRUE, code |-> 0]

RpcErr(code) == [ok |-> FALSE, code |-> code]

\* graph.get_index(name).or_else(|| find_by_name(name).first() ...)
resolve_node(name) == name \in GraphNames

\* unwrap_or(Value::Null) on params, then params.get("name") / get("arguments").
call_tool(params) ==
    IF ~params.present \/ params.name = Null THEN RpcErr(-32602)
    ELSE IF params.name = "get_logic_path" THEN RpcOk
    ELSE IF params.name = "analyze_impact" THEN RpcOk
    ELSE IF params.name = "find_path"
         THEN IF resolve_node(params.start_node) /\ resolve_node(params.end_node)
              THEN RpcOk
              ELSE RpcErr(-32602)
    ELSE RpcErr(-32601)

\* The responses handle_request returns: none for a request without id.
handle_request(req) ==
    LET result ==
            IF req.method \in {"initialize", "notifications/initialized",
                               "tools/list", "resources/list"}
            THEN RpcOk
            ELSE IF req.method = "tools/call" THEN call_tool(req.params)
            ELSE RpcErr(-32601)
    IN IF req.id = Null
       THEN <<>>
       ELSE <<[id |-> req.id, ok |-> result.ok, code |-> result.code]>>

\* One iteration of the loop of run_stdio; io says whether the write to
\* stdout succeeds.
ReadLine(line, io) ==
    /\ mcp.exit = "running"
    /\ Len(mcp.lines) < MaxLines
    /\ LET parsed == from_str(line)
           response == IF line.kind = "blank" \/ ~parsed.ok
                       THEN <<>>
                       ELSE handle_request(parsed.req)
           failed == response # <<>> /\ io = "error"
       IN mcp' = [lines |-> Append(mcp.lines,
                                   [line |-> line,
                                    wrote |-> IF failed THEN <<>> ELSE response]),
                  exit |-> IF failed THEN "io_error" ELSE "running"]

\* stdin is closed: the loop ends and run_stdio returns Ok(()).
EndOfInput ==
    /\ mcp.exit = "running"
    /\ mcp' = [mcp EXCEPT !.exit = "eof"]

McpOthersUnchanged ==
    UNCHANGED <<storeVars, idxVars, symVars, bldVars, slcVars, confVars, nodeVars, bridgeVars, concVars>>

InitMcp ==
    /\ StoreInitOther
    /\ IdxInitOther
    /\ SymInitOther
    /\ BldInitOther
    /\ SlcInitOther
    /\ ConfInitOther
    /\ NodeInitOther
    /\ McpInitOther
    /\ BridgeInitOther
    /\ ConcInitOther

NextMcp ==
    \/ \E line \in StdinLines, io \in {"ok", "error"} :
           ReadLine(line, io) /\ McpOthersUnchanged
    \/ EndOfInput /\ McpOthersUnchanged

SpecMcp == InitMcp /\ [][NextMcp]_vars

(***************************************************************************)
(* Properties of the MCP server (checked under SpecMcp)                    *)
(***************************************************************************)

\* The failure class of a line: the stable code its answer has to carry, or
\* 0 when the line is no failed request (a blank line, or a request that
\* succeeds).
FailureCode(line) ==
    IF line.kind = "blank" THEN 0
    ELSE IF line.kind # "request" THEN -32700
    ELSE IF line.method \in {"initialize", "notifications/initialized",
                             "tools/list", "resources/list"} THEN 0
    ELSE IF line.method # "tools/call" THEN -32601
    ELSE IF ~line.params.present \/ line.params.name = Null THEN -32602
    ELSE IF line.params.name = "no_such_tool" THEN -32601
    ELSE IF line.params.name = "find_path"
            /\ ~(line.params.start_node \in GraphNames /\ line.params.end_node \in GraphNames)
         THEN -32602
    ELSE 0

\* A line the peer expects an answer to: an unparsable line, or a request
\* that carries an id.
ExpectsAnswer(line) ==
    line.kind \in {"garbage", "nomethod"} \/ (line.kind = "request" /\ line.id # Null)

\* C25: every failed request the server read and could write an answer for
\* is answered with one error object carrying the code of its failure
\* class (-32700 parse error, -32601 unknown method or tool, -32602 missing
\* or invalid parameters).
FailuresAnswered ==
    \A i \in DOMAIN mcp.lines :
        LET e == mcp.lines[i]
        IN (ExpectsAnswer(e.line) /\ FailureCode(e.line) # 0
                /\ ~(i = Len(mcp.lines) /\ mcp.exit = "io_error")) =>
               /\ Len(e.wrote) = 1
               /\ ~e.wrote[1].ok
               /\ e.wrote[1].code = FailureCode(e.line)

(***************************************************************************)
(* Startup of the bridge (arbor-cli/src/commands.rs, bridge)               *)
(*                                                                         *)
(* br.pc is the next statement of bridge; br.lock is the state of the      *)
(* RwLock around the shared graph ("free", "read" or "write") and          *)
(* br.readers the number of read guards alive.  Graphs are represented by  *)
(* their number of vertices.                                               *)
(***************************************************************************)

MaxBridgeNodes == 4

MaxReaders == 2

\* compute_centrality(&guard, 20, 0.85)
ITERATIONS == 20

\* spawn_blocking(index_directory).await: the index is built on a blocking
\* thread; it yields a graph of n vertices or an error.
IndexDirectoryDone(n, ok) ==
    /\ br.pc = "index"
    /\ br' = [br EXCEPT !.pc = IF ok THEN "acquire" ELSE "servers",
                        !.built = IF ok THEN n ELSE 0,
                        !.failed = ~ok]

\* shared_graph.write().await
AcquireWrite ==
    /\ br.pc = "acquire"
    /\ br.lock = "free"
    /\ br' = [br EXCEPT !.pc = "swap", !.lock = "write"]

\* *guard = index_result.graph
SwapGraph ==
    /\ br.pc = "swap"
    /\ br' = [br EXCEPT !.pc = "centrality", !.slot = br.built]

\* compute_centrality(&guard, 20, 0.85): returns at once on an empty graph,
\* else runs one iteration of the loop per step.
CentralityStep ==
    /\ br.pc = "centrality"
    /\ br' = IF br.slot = 0 \/ br.iter = ITERATIONS
             THEN [br EXCEPT !.pc = "set"]
             ELSE [br EXCEPT !.iter = br.iter + 1]

\* guard.set_centrality(scores.into_map())
SetCentrality ==
    /\ br.pc = "set"
    /\ br' = [br EXCEPT !.pc = "report", !.scored = TRUE]

\* eprintln!("Index Ready ..."); the guard is dropped at the end of the arm.
ReportAndRelease ==
    /\ br.pc = "report"
    /\ br' = [br EXCEPT !.pc = "servers", !.lock = "free"]

\* tokio::spawn of the RPC and sync servers, which share the graph.
StartServers ==
    /\ br.pc = "servers"
    /\ br' = [br EXCEPT !.pc = "serving"]

\* A server task takes a read guard on the shared graph.
AcquireRead ==
    /\ br.pc = "serving"
    /\ br.lock # "write"
    /\ br.readers < MaxReaders
    /\ br' = [br EXCEPT !.lock = "read", !.readers = br.readers + 1]

\* A server task drops its read guard.
ReleaseRead ==
    /\ br.readers > 0
    /\ br' = [br EXCEPT !.readers = br.readers - 1,
                        !.lock = IF br.readers = 1 THEN "free" ELSE "read"]

BridgeOthersUnchanged ==
    UNCHANGED <<storeVars, idxVars, symVars, bldVars, slcVars, confVars, nodeVars, mcpVars, concVars>>

InitBridge ==
    /\ StoreInitOther
    /\ IdxInitOther
    /\ SymInitOther
    /\ BldInitOther
    /\ SlcInitOther
    /\ ConfInitOther
    /\ NodeInitOther
    /\ McpInitOther
    /\ BridgeInitOther
    /\ ConcInitOther

NextBridge ==
    \/ \E n \in 0..MaxBridgeNodes, ok \in BOOLEAN :
           IndexDirectoryDone(n, ok) /\ BridgeOthersUnchanged
    \/ AcquireWrite /\ BridgeOthersUnchanged
    \/ SwapGraph /\ BridgeOthersUnchanged
    \/ CentralityStep /\ BridgeOthersUnchanged
    \/ SetCentrality /\ BridgeOthersUnchanged
    \/ ReportAndRelease /\ BridgeOthersUnchanged
    \/ StartServers /\ BridgeOthersUnchanged
    \/ AcquireRead /\ BridgeOthersUnchanged
    \/ ReleaseRead /\ BridgeOthersUnchanged

SpecBridge == InitBridge /\ [][NextBridge]_vars

(***************************************************************************)
(* Properties of the bridge startup (checked under SpecBridge)             *)
(***************************************************************************)

\* The write lock is held from its acquisition to the end of the match arm.
WriteLockScope ==
    br.lock = "write" <=> br.pc \in {"swap", "centrality", "set", "report"}

\* C27: the index is built without the lock, and while the write lock is
\* held the only statement left to run under it is the swap of the new
\* graph into the shared slot.
WriteLockOnlyForSwap ==
    /\ br.pc = "index" => br.lock = "free"
    /\ br.lock = "write" => br.pc = "swap"

(***************************************************************************)
(* Concurrent update_file calls on one GraphStore (store.rs)               *)
(*                                                                         *)
(* update_file takes &self and the sled tree is Sync, so two threads can   *)
(* be inside it at once.  Each call reads f:<path>, fills its own batch    *)
(* and commits it; sled applies a batch atomically.                        *)
(***************************************************************************)

MaxCalls == 3

\* Lines 111-137: read the old id-list and fill the batch.
ConcUpdateBegin(t, path, nodes, mtime) ==
    /\ thr[t].pc = "idle"
    /\ calls.started < MaxCalls
    /\ thr' = [thr EXCEPT ![t] = [pc |-> "apply", path |-> path,
                                  batch |-> UpdateBatch(cdb, path, nodes, mtime)]]
    /\ calls' = [started |-> calls.started + 1,
                 overlapped |-> calls.overlapped
                                \/ \E u \in Threads \ {t} :
                                       thr[u].pc = "apply" /\ thr[u].path = path]
    /\ UNCHANGED cdb

\* Line 140: self.db.apply_batch(batch)
ConcApplyBatch(t) ==
    /\ thr[t].pc = "apply"
    /\ cdb' = ApplyOps(cdb, thr[t].batch)
    /\ thr' = [thr EXCEPT ![t].pc = "flush"]
    /\ UNCHANGED calls

\* Lines 141-142: self.db.flush() and Ok(())
ConcFlush(t) ==
    /\ thr[t].pc = "flush"
    /\ thr' = [thr EXCEPT ![t] = NoThread]
    /\ UNCHANGED <<cdb, calls>>

ConcOthersUnchanged ==
    UNCHANGED <<storeVars, idxVars, symVars, bldVars, slcVars, confVars, nodeVars, mcpVars, bridgeVars>>

InitConc ==
    /\ StoreInitOther
    /\ IdxInitOther
    /\ SymInitOther
    /\ BldInitOther
    /\ SlcInitOther
    /\ ConfInitOther
    /\ NodeInitOther
    /\ McpInitOther
    /\ BridgeInitOther
    /\ ConcInitOther

NextConc ==
    \/ \E t \in Threads, path \in Paths, src \in Sources \ {SrcEmpty}, mtime \in Mtimes :
           ConcUpdateBegin(t, path, parse_file(path, src).nodes, mtime)
               /\ ConcOthersUnchanged
    \/ \E t \in Threads : ConcApplyBatch(t) /\ ConcOthersUnchanged
    \/ \E t \in Threads : ConcFlush(t) /\ ConcOthersUnchanged

SpecConc == InitConc /\ [][NextConc]_vars

(***************************************************************************)
(* Properties of concurrent updates (checked under SpecConc)               *)
(***************************************************************************)

\* The vertex records no id-list names: load_graph returns them, while
\* get_file_nodes returns them for no path.
Orphans(d) ==
    {id \in DOMAIN d.n : \A p \in DOMAIN d.f : id \notin Range(d.f[p])}

\* Calls that do not overlap on a path leave no orphan.
SerialUpdatesLeaveNoOrphan ==
    ((\A t \in Threads : thr[t].pc = "idle") /\ ~calls.overlapped) => Orphans(cdb) = {}

\* C28: once every update_file call has completed, also when two calls for
\* the same path ran concurrently, every stored vertex record is listed in
\* the id-list of its path.
ConcurrentUpdatesLeaveNoOrphan ==
    (\A t \in Threads : thr[t].pc = "idle") => Orphans(cdb) = {}

(***************************************************************************)
(* The cache against the returned graph (checked under SpecIndex)          *)
(***************************************************************************)

\* C29: after index_directory completes with a cache and without a store
\* error, load_graph() on the cache returns the vertex ids of the returned
\* graph.
CacheAgreesWithGraph ==
    (run.pc = "done" /\ run.cached /\ run.storeFailed = {}) =>
        VertexIds(load_graph(db)) = VertexIds(run.graph)

(***************************************************************************)
(* The counters of IndexResult (checked under SpecIndex)                   *)
(***************************************************************************)

\* The supported files the walk has visited so far.
Visited(r) == r.walk \ Range(r.todo)

\* C30: every supported file the walk visited is counted exactly once, as a
\* cache hit, an indexed file or an error, so files_indexed + cache_hits +
\* |errors| is the number of files visited; and nodes_extracted is the
\* number of vertices handed to the builder.
CountersAccount ==
    run.pc \in {"walk", "done"} =>
        /\ run.files_indexed + run.cache_hits + Len(run.errors) = Cardinality(Visited(run))
        /\ run.files_indexed = Cardinality(run.parsed)
        /\ Len(run.errors) = Cardinality(run.failed)
        /\ run.parsed \cap run.failed = {}
        /\ run.nodes_extracted = run.handed

\* A completed run over two files: one served from the cache, one that fails
\* to parse, with vertices handed to the builder.
HitAndErrorCounted ==
    /\ run.pc = "done"
    /\ Cardinality(run.walk) = 2
    /\ run.cache_hits = 1
    /\ Len(run.errors) = 1
    /\ run.files_indexed = 0
    /\ run.nodes_extracted > 0
====
